---- MODULE Spec2Model ----
(***************************************************************************)
(* Model of the backend session layer of orca:                             *)
(*   src/backend/kernel_manager.py    KernelManager (one per machine)      *)
(*   src/backend/session_registry.py  SessionRegistry (shared Redis store) *)
(*   src/backend/machine_forwarder.py MachineForwarder                     *)
(* Every coroutine call is a slot of `calls`; one action is the code that  *)
(* runs between two awaits (asyncio switches coroutines only at an await). *)
(* The Jupyter interpreter, the Redis store and the clock are environment. *)
(***************************************************************************)
EXTENDS Integers, Sequences, FiniteSets, TLC

\* ------------------------------------------------------------------ bounds
MaxSessionIds == 2            \* uuid4 values handed out in a run
MaxExecs == 2                 \* msg ids handed out by kc.execute in a run
MaxCalls == 3                 \* calls of the public methods in a run
MaxBuffered == 2              \* messages of an endless print loop waiting on iopub
MaxChunks == 2                \* stdout chunks a call collects before its clock moves on
MaxMsgs == 3                  \* messages buffered on iopub when the collection starts

\* kernel_manager.py:23,28  the ceiling given to the constructor
max_sessions_per_machine == 1

Machines == {"mA", "mB"}
Tasks == {"t1", "t2"}
NoMachine == "none"
NoTask == "none"
SessionIds == 1..MaxSessionIds
Timeouts == {2}               \* timeout arguments, in seconds (one poll of iopub each)
\* x = <token>  |  print(x)  |  print(x); raise  |  while True: print(x)
Codes == {"assign", "print", "fail", "spin"}
Users == {"u1", "u2"}
Traceback == "NameError"       \* print(x) with x unbound
Raised == "ValueError"         \* the raise statement after a print that worked

VARIABLES
  kernels,          \* [m][s]: the AsyncKernelManager (its process id), 0 = no key
  kernel_clients,   \* [m][s]: the AsyncKernelClient (process it talks to), 0 = no key
  startup_lock,     \* [m]: the call holding _startup_lock, or NoTask
  session_dirs,     \* workspace directories created
  _kernels,         \* the control service: KernelManager._kernels (ids with a handle)
  registry,         \* the Redis keys session:<id> -> machine_id, NoMachine = no key
  forwards,         \* requests the Forwarder has posted
  nextSession,      \* next uuid4
  nextMsg,          \* next msg id
  started,          \* calls begun so far
  alive,            \* [p]: interpreter process p is running
  ns,               \* [p]: value of x in interpreter p, 0 = unbound
  shell_requests,   \* [p]: execute requests the interpreter has not taken yet
  pending,          \* [p]: messages the running request has still to send
  iopub,            \* [p]: messages buffered on the client's iopub channel
  shell_replies,    \* [p]: messages buffered on the client's shell channel
  interrupts,       \* processes an interrupt was sent to
  calls,            \* [t]: the coroutine call in slot t
  returned,         \* the call that ended last, with what it returned or raised
  docker_initialized, \* ContainerManager._docker_initialized
  redis_client,     \* ContainerManager.redis_client is not None
  containers,       \* [c]: the container engine: status and name of container c
  user_container,   \* the Redis keys user:<id>:container, 0 = no key
  last_used,        \* containers with a key container:<id>:last_used
  nextContainer,    \* next container id of the engine
  connection_file,  \* [u]: the container whose kernel wrote <u>/kernel/connection.json, 0 = no file
  xcall,            \* the running call of the Executor or the Forwarder
  xlast,            \* the call of the service layer that ended last
  xprev             \* the one that ended before it

kmVars == <<kernels, kernel_clients, startup_lock, session_dirs, _kernels>>
regVars == <<registry, forwards>>
idVars == <<nextSession, nextMsg, started>>
kernelVars == <<alive, ns, shell_requests, pending, iopub, shell_replies, interrupts>>
svcVars == <<docker_initialized, redis_client, containers, user_container, last_used,
             nextContainer, connection_file, xcall, xlast, xprev>>
vars == <<kmVars, regVars, idVars, kernelVars, calls, returned, svcVars>>

\* ----------------------------------------------------------------- helpers
NoCall ==
  [op |-> "none", m |-> NoMachine, sid |-> 0, pc |-> "free", code |-> "-",
   fwd |-> FALSE, timeout |-> 0, elapsed |-> 0, msg_id |-> 0, kc |-> 0,
   lookup |-> "-", stdout |-> <<>>, stderr |-> <<>>, result |-> "None",
   execution_complete |-> FALSE, again |-> FALSE, degraded |-> FALSE,
   extended |-> FALSE, timed_out |-> "-", user |-> "-", outputs |-> <<>>, ret |-> "-"]

\* The elements of a sequence.
Range(seq) == {seq[i] : i \in 1..Len(seq)}

\* Slots are interchangeable: a new call takes the first free one.
FirstFree(t) == t = "t1" \/ calls["t1"].pc # "free"

Free(t) == calls[t].pc = "free" /\ FirstFree(t) /\ started < MaxCalls

Begun == started' = started + 1

Keys(map) == {s \in SessionIds : map[s] # 0}

LiveCount(m) == Cardinality(Keys(kernels[m]))

Finish(c, r) == [c EXCEPT !.pc = "done", !.ret = r]

\* What is left of a call that has ended: its arguments and what it returned or
\* raised (its clock and its msg id die with it).
Outcome(c) == [c EXCEPT !.elapsed = 0, !.msg_id = 0]

\* The call in slot t goes on as c; a call that has ended leaves its slot and is
\* what its caller got back.
Settle(t, c) ==
  IF c.pc = "done"
  THEN calls' = [calls EXCEPT ![t] = NoCall] /\ returned' = Outcome(c)
  ELSE calls' = [calls EXCEPT ![t] = c] /\ UNCHANGED returned

\* A client's buffers are unreachable once its process is gone and no running
\* call holds the client.
InUse(p, cs) ==
  \E t \in Tasks : cs[t].op = "execute" /\ cs[t].pc \in {"iopub", "shell"} /\ cs[t].kc = p

Reclaim(buf, al, cs) ==
  [p \in SessionIds |-> IF ~al[p] /\ ~InUse(p, cs) THEN <<>> ELSE buf[p]]

\* get_shell_msg(msg_id) hands a call the reply to its own request: a reply that no
\* running call asks for is never read, and is dropped from the buffer.
Wanted(p, id, cs) ==
  \/ \E t \in Tasks : /\ cs[t].op = "execute" /\ cs[t].pc \in {"iopub", "shell"}
                      /\ cs[t].kc = p /\ cs[t].msg_id = id
  \/ xcall.pc \in {"iopub", "final"} /\ xcall.kc = p /\ xcall.msg_id = id

ReclaimShell(buf, cs) ==
  [p \in SessionIds |-> SelectSeq(buf[p], LAMBDA r : Wanted(p, r.parent, cs))]

\* ---------------------------------------------------------------- registry
\* `up` is FALSE when the operation does not reach the store: redis_client is None
\* (the constructor's ping failed) or the command raises RedisError, which every
\* method swallows.
\* Mutant of Escapes: the except clauses are missing, the RedisError of a command that
\* does not reach the store goes up to the caller.
EscapesUncaught(up) == ~up

\* session_registry.py:60,73,101,110  every command is sent inside try, and the
\* RedisError it raises is caught in the method: nothing escapes to the caller.
Escapes(up) == FALSE

\* Mutant of register_session: the key is set only when it does not exist (SET NX).
register_session_nx(reg, m, s, up) ==
  IF up /\ reg[s] = NoMachine THEN [reg EXCEPT ![s] = m] ELSE reg

\* SessionRegistry.register_session: setex when the store answers.
register_session(reg, m, s, up) ==
  IF up THEN [reg EXCEPT ![s] = m] ELSE reg

\* SessionRegistry.get_session_machine: None on a missing client or a RedisError.
get_session_machine(m, s, up) ==
  IF up THEN registry[s] ELSE NoMachine

\* SessionRegistry.unregister_session: delete when the store answers.
unregister_session(reg, m, s, up) ==
  IF up THEN [reg EXCEPT ![s] = NoMachine] ELSE reg

\* SessionRegistry.extend_session_ttl: expire() renews an existing key only.
extend_session_ttl(reg, m, s, up) == reg

\* A value as Python holds it: None, bytes or str.
None == [type |-> "None", v |-> 0]

\* The record of a call of the service layer (Executor, ContainerManager, Forwarder).
NoXCall ==
  [op |-> "none", pc |-> "free", user |-> "-", kc |-> 0, code |-> "-", timeout |-> 0,
   elapsed |-> 0, msg_id |-> 0, stdout |-> <<>>, stderr |-> <<>>, results |-> <<>>,
   plots |-> <<>>, success |-> FALSE, id |-> 0, seen |-> "-", target |-> "-", broke |-> FALSE,
   fallback |-> FALSE,
   ret |-> "-"]

\* What the container engines know of a container id: its status, its name (the
\* tenant of orca-user-<user_id>) and the engine that runs it.
NoContainer == [status |-> "absent", name |-> "-", engine |-> "-"]

\* The engine behind /var/run/docker.sock of the machine a process runs on.
EngineOf(m) == m

\* container_manager.py:20-43  the fields of a ContainerManager after construction;
\* redis_client is None when the ping raised ConnectionError.
InitServices(redis_ok) ==
  /\ docker_initialized = FALSE
  /\ redis_client = redis_ok
  /\ containers = [c \in SessionIds |-> NoContainer]
  /\ user_container = [u \in Users |-> 0]
  /\ last_used = {}
  /\ nextContainer = 1
  /\ connection_file = [u \in Users |-> 0]
  /\ xcall = NoXCall
  /\ xlast = NoXCall
  /\ xprev = NoXCall

InitSessions ==
  /\ kernels = [m \in Machines |-> [s \in SessionIds |-> 0]]
  /\ kernel_clients = [m \in Machines |-> [s \in SessionIds |-> 0]]
  /\ startup_lock = [m \in Machines |-> NoTask]
  /\ session_dirs = {}
  /\ _kernels = {}
  /\ registry = [s \in SessionIds |-> NoMachine]
  /\ forwards = {}
  /\ nextSession = 1
  /\ nextMsg = 1
  /\ started = 0
  /\ alive = [p \in SessionIds |-> FALSE]
  /\ ns = [p \in SessionIds |-> 0]
  /\ shell_requests = [p \in SessionIds |-> <<>>]
  /\ pending = [p \in SessionIds |-> <<>>]
  /\ iopub = [p \in SessionIds |-> <<>>]
  /\ shell_replies = [p \in SessionIds |-> <<>>]
  /\ interrupts = {}
  /\ calls = [t \in Tasks |-> NoCall]
  /\ returned = NoCall

Init == InitSessions /\ InitServices(TRUE)

\* ----------------------------------------------------------- create_session
\* Mutant of AtCapacity: the ceiling compared with > for >=.
AtCapacityStrict(m) == LiveCount(m) > max_sessions_per_machine

\* kernel_manager.py:37  the capacity check
AtCapacity(m) == LiveCount(m) >= max_sessions_per_machine

\* Mutant of LockFree: the lock is taken without looking at its holder.
LockFreeAlways(m) == TRUE

\* asyncio.Lock.acquire returns at once only when the lock is free and nobody waits.
LockFree(m) ==
  /\ startup_lock[m] = NoTask
  /\ ~\E u \in Tasks : calls[u].pc = "wait_lock" /\ calls[u].m = m

\* Lines 50-60 up to the await of start_kernel; mkdir may raise (km is still None).
EnterStartup(t, m, s, mkdir_ok) ==
  IF mkdir_ok
  THEN /\ startup_lock' = [startup_lock EXCEPT ![m] = t]
       /\ session_dirs' = session_dirs \cup {s}
       /\ UNCHANGED _kernels
       /\ Settle(t, [NoCall EXCEPT !.op = "create", !.m = m, !.sid = s, !.pc = "starting"])
  ELSE /\ UNCHANGED <<startup_lock, session_dirs, _kernels>>
       /\ Settle(t, Finish([NoCall EXCEPT !.op = "create", !.m = m, !.sid = s], "StartupFailure"))

\* create_session from its first line to its first await.
CreateBegin(t, m) ==
  /\ Free(t)
  /\ IF AtCapacity(m)
     THEN /\ Settle(t, Finish([NoCall EXCEPT !.op = "create", !.m = m], "Capacity"))
          /\ UNCHANGED <<nextSession, startup_lock, session_dirs, _kernels>>
     ELSE /\ nextSession <= MaxSessionIds
          /\ nextSession' = nextSession + 1
          /\ IF LockFree(m)
             THEN \E mkdir_ok \in BOOLEAN : EnterStartup(t, m, nextSession, mkdir_ok)
             ELSE /\ Settle(t, [NoCall EXCEPT !.op = "create", !.m = m, !.sid = nextSession, !.pc = "wait_lock"])
                  /\ UNCHANGED <<startup_lock, session_dirs, _kernels>>
  /\ Begun
  /\ UNCHANGED <<svcVars, kernels, kernel_clients, regVars, nextMsg, kernelVars>>

\* The lock is handed to the waiting call.
CreateAcquire(t) ==
  /\ calls[t].pc = "wait_lock"
  /\ startup_lock[calls[t].m] = NoTask
  /\ \E mkdir_ok \in BOOLEAN : EnterStartup(t, calls[t].m, calls[t].sid, mkdir_ok)
  /\ UNCHANGED <<svcVars, kernels, kernel_clients, regVars, idVars, kernelVars>>

\* Lines 60-75: start_kernel returns, times out (15 s) or raises; on success the
\* client is made and the readiness wait begins.
CreateStarted(t) ==
  /\ calls[t].pc = "starting"
  /\ \E outcome \in {"ok", "timeout", "raise"}, spawned \in BOOLEAN :
       /\ outcome = "ok" => spawned
       /\ alive' = [alive EXCEPT ![calls[t].sid] = spawned]
       /\ Settle(t, [calls[t] EXCEPT !.pc = IF outcome = "ok" THEN "readying" ELSE "cleanup",
                                     !.timed_out = IF outcome = "timeout" THEN "start" ELSE @])
  /\ UNCHANGED <<svcVars, kmVars, regVars, idVars, ns, shell_requests, pending, iopub,
                 shell_replies, interrupts>>

\* Mutant of ReadinessFatal: a timeout of the readiness wait is an error as well.
ReadinessFatalOnTimeout(outcome) == outcome # "ready"

\* kernel_manager.py:74-80  asyncio.TimeoutError of the readiness wait is caught and
\* printed; any other exception of wait_for_ready goes to the cleanup.
ReadinessFatal(outcome) == outcome = "raise"

\* Lines 75-91: the readiness wait returns or times out (both admit the session), or
\* raises (the process died); then the maps and the registry are written.
CreateReady(t) ==
  /\ calls[t].pc = "readying"
  /\ LET m == calls[t].m
         s == calls[t].sid
     IN \E outcome \in {"ready", "timeout", "raise"}, up \in BOOLEAN :
          LET waited == [calls[t] EXCEPT !.timed_out =
                                          IF outcome = "timeout" THEN "ready" ELSE @]
          IN
          IF ReadinessFatal(outcome)
          THEN /\ Settle(t, [waited EXCEPT !.pc = "cleanup"])
               /\ UNCHANGED <<kernels, kernel_clients, startup_lock, registry>>
          ELSE /\ kernels' = [kernels EXCEPT ![m][s] = s]
               /\ kernel_clients' = [kernel_clients EXCEPT ![m][s] = s]
               /\ IF Escapes(up)
                  THEN /\ Settle(t, [waited EXCEPT !.pc = "cleanup", !.degraded = TRUE])
                       /\ UNCHANGED <<startup_lock, registry>>
                  ELSE /\ registry' = register_session(registry, m, s, up)
                       /\ startup_lock' = [startup_lock EXCEPT ![m] = NoTask]
                       /\ Settle(t, Finish([waited EXCEPT !.degraded = ~up], "ok"))
  /\ UNCHANGED <<svcVars, session_dirs, _kernels, forwards, idVars, kernelVars>>

\* Mutant of DelClient: the client stays in its map.
DelClientMissing(m, s) == kernel_clients

\* kernel_manager.py:243 (and 102-103)  del self.kernel_clients[session_id]
DelClient(m, s) == [kernel_clients EXCEPT ![m][s] = 0]

\* Lines 92-104: the except branch after km was made: shutdown_kernel(now=True), whose
\* own failure is only printed, then the map entries are dropped and the call raises.
CreateCleanup(t) ==
  /\ calls[t].pc = "cleanup"
  /\ LET m == calls[t].m
         s == calls[t].sid
     IN \E shutdown_ok \in BOOLEAN :
          /\ alive' = [alive EXCEPT ![s] = IF shutdown_ok THEN FALSE ELSE alive[s]]
          /\ kernels' = [kernels EXCEPT ![m][s] = 0]
          /\ kernel_clients' = DelClient(m, s)
          /\ startup_lock' = [startup_lock EXCEPT ![m] = NoTask]
          /\ Settle(t, Finish(calls[t], "StartupFailure"))
  /\ UNCHANGED <<svcVars, session_dirs, _kernels, regVars, idVars, ns, shell_requests, pending, iopub,
                 shell_replies, interrupts>>

\* ----------------------------------------------------------- delete_session
\* kernel_manager.py:239  the membership test that guards the shutdown
HeldLocally(m, s) == kernels[m][s] # 0

\* The call comes right after a delete_session of the same session on the same
\* machine ended: that one is the last call that ended and no call is running.
InARow(m, s) ==
  /\ returned.op = "delete" /\ returned.m = m /\ returned.sid = s
  /\ \A u \in Tasks : calls[u].pc = "free"

\* delete_session to its first await (shutdown_kernel), or to its end when the
\* session is not in the map: the unregister runs either way.
DeleteBegin(t, m, s) ==
  /\ Free(t)
  /\ LET c == [NoCall EXCEPT !.op = "delete", !.m = m, !.sid = s, !.again = InARow(m, s)]
     IN IF HeldLocally(m, s)
        THEN /\ Settle(t, [c EXCEPT !.kc = kernels[m][s], !.pc = "shutting"])
             /\ UNCHANGED registry
        ELSE \E up \in BOOLEAN :
             /\ registry' = unregister_session(registry, m, s, up)
             /\ Settle(t, Finish([c EXCEPT !.degraded = ~up],
                                 IF Escapes(up) THEN "RedisError" ELSE "ok"))
  /\ Begun
  /\ UNCHANGED <<svcVars, kmVars, forwards, nextSession, nextMsg, kernelVars>>

\* Lines 241-247 after the await: shutdown_kernel returned or raised; the two del
\* statements raise KeyError when the key is gone; then the unregister.
DeleteShutdown(t) ==
  /\ calls[t].pc = "shutting"
  /\ LET m == calls[t].m
         s == calls[t].sid
         p == calls[t].kc
     IN \E shutdown_ok \in BOOLEAN, up \in BOOLEAN :
          IF ~shutdown_ok
          THEN /\ Settle(t, Finish(calls[t], "ShutdownError"))
               /\ UNCHANGED <<kernels, kernel_clients, registry, kernelVars>>
          ELSE /\ IF kernels[m][s] = 0
                  THEN /\ Settle(t, Finish(calls[t], "KeyError"))
                       /\ UNCHANGED <<kernels, kernel_clients, registry>>
                  ELSE /\ kernels' = [kernels EXCEPT ![m][s] = 0]
                       /\ IF kernel_clients[m][s] = 0
                          THEN /\ Settle(t, Finish(calls[t], "KeyError"))
                               /\ UNCHANGED <<kernel_clients, registry>>
                          ELSE /\ kernel_clients' = DelClient(m, s)
                               /\ registry' = unregister_session(registry, m, s, up)
                               /\ Settle(t, Finish([calls[t] EXCEPT !.degraded = ~up],
                                                   IF Escapes(up) THEN "RedisError" ELSE "ok"))
               /\ alive' = [alive EXCEPT ![p] = FALSE]
               /\ ns' = [ns EXCEPT ![p] = 0]
               /\ shell_requests' = [shell_requests EXCEPT ![p] = <<>>]
               /\ pending' = [pending EXCEPT ![p] = <<>>]
               /\ iopub' = Reclaim(iopub, alive', calls')
               /\ shell_replies' = ReclaimShell(shell_replies, calls')
               /\ UNCHANGED interrupts
  /\ UNCHANGED <<svcVars, startup_lock, session_dirs, _kernels, forwards, idVars>>

\* ----------------------------------------------------------- the interpreter
IopubMsg(type, name, text, parent) ==
  [chan |-> "iopub", type |-> type, name |-> name, text |-> text, parent |-> parent,
   data |-> {}]

\* A display_data message: `data` is the set of MIME types its content carries, `text`
\* stands for the payload.
DisplayMsg(data, text, parent) ==
  [IopubMsg("display_data", "", text, parent) EXCEPT !.data = data]

ShellMsg(status, text, parent) ==
  [chan |-> "shell", type |-> "execute_reply", name |-> status, text |-> text,
   parent |-> parent, data |-> {}]

\* The interpreter is inside `while True: print(x)` (nothing is sent for it).
LoopMsg(text, parent) ==
  [chan |-> "loop", type |-> "loop", name |-> "", text |-> text, parent |-> parent,
   data |-> {}]

\* What a Jupyter kernel sends for one execute request, in its order: the output on
\* iopub, the reply on shell, then status idle on iopub. (Message types the drain
\* loop ignores, status busy and execute_input, are left out.)
Emit(code, x, id) ==
  IF code = "assign"
  THEN <<ShellMsg("ok", "", id), IopubMsg("status", "idle", "", id)>>
  ELSE IF x = 0
  THEN <<IopubMsg("error", "", Traceback, id), ShellMsg("error", Traceback, id),
         IopubMsg("status", "idle", "", id)>>
  ELSE IF code = "print"
  THEN <<IopubMsg("stream", "stdout", ToString(x), id), ShellMsg("ok", "", id),
         IopubMsg("status", "idle", "", id)>>
  ELSE IF code = "fail"
  THEN <<IopubMsg("stream", "stdout", ToString(x), id),
         IopubMsg("error", "", Raised, id), ShellMsg("error", Raised, id),
         IopubMsg("status", "idle", "", id)>>
  ELSE <<LoopMsg(ToString(x), id)>>

\* The next turn of an endless print loop: one more stream message, and the loop again.
Unroll(todo) ==
  IF Head(todo).chan = "loop"
  THEN <<IopubMsg("stream", "stdout", Head(todo).text, Head(todo).parent), Head(todo)>>
  ELSE todo

\* The interpreter sends its next message; when idle it first takes the next request
\* (an assignment binds x to the token of the request).
KernelStep(p) ==
  /\ alive[p]
  /\ pending[p] # <<>> \/ shell_requests[p] # <<>>
  /\ LET taking == pending[p] = <<>>
         r == Head(shell_requests[p])
         x == IF taking /\ r.code = "assign" THEN r.token ELSE ns[p]
         next == IF taking THEN Emit(r.code, x, r.msg_id) ELSE pending[p]
         todo == Unroll(next)
         msg == Head(todo)
     IN /\ Head(next).chan = "loop" => Len(iopub[p]) < MaxBuffered
        /\ ns' = [ns EXCEPT ![p] = x]
        /\ shell_requests' = [shell_requests EXCEPT ![p] = IF taking THEN Tail(@) ELSE @]
        /\ pending' = [pending EXCEPT ![p] = Tail(todo)]
        /\ iopub' = [iopub EXCEPT ![p] = IF msg.chan = "iopub" THEN Append(@, msg) ELSE @]
        /\ shell_replies' = [shell_replies EXCEPT ![p] =
                               IF msg.chan = "shell" /\ Wanted(p, msg.parent, calls)
                               THEN Append(@, msg) ELSE @]
  /\ UNCHANGED <<svcVars, kmVars, regVars, idVars, alive, interrupts, calls, returned>>

\* ------------------------------------------------------------- execute_code
\* machine_forwarder.py:13-19  the parameters of forward_execute_request
ForwardParameters == {"machine_address", "session_id", "code", "timeout"}

\* kernel_manager.py:130-135  the keyword arguments of the call
ForwardKeywords == {"machine_id", "session_id", "code", "timeout"}

\* Python binds keyword arguments by name; an unknown keyword raises TypeError.
Binds(keywords, parameters) == keywords \subseteq parameters

\* Mutant of ClientOf: the client of some live session of the machine.
ClientOfAny(m, s) ==
  IF kernel_clients[m][s] = 0 THEN 0
  ELSE kernel_clients[m][CHOOSE q \in SessionIds : kernel_clients[m][q] # 0]

\* kernel_manager.py:155  the client the code is sent to
ClientOf(m, s) == kernel_clients[m][s]

\* Mutant of BudgetExhausted: the loop is left and what was collected is returned.
BudgetExhaustedReturns(c) == Finish(c, "dict")

\* kernel_manager.py:175-176  what the loop does when the budget is used up
BudgetExhausted(c) == Finish(c, "Timeout")

\* Mutant of NotFoundKind: the two branches exchanged.
NotFoundKindSwapped(machine_id) ==
  IF machine_id = NoMachine THEN "NotFoundLocal" ELSE "NotFound"

\* kernel_manager.py:143-148  the two not-found errors
NotFoundKind(machine_id) ==
  IF machine_id = NoMachine THEN "NotFound" ELSE "NotFoundLocal"

\* Mutant of Classify: a stdout text is put in front of the texts collected so far.
ClassifyNewestFirst(c, msg) ==
  IF msg.type = "stream"
  THEN IF msg.name = "stdout" THEN [c EXCEPT !.stdout = <<msg.text>> \o @]
       ELSE IF msg.name = "stderr" THEN [c EXCEPT !.stderr = Append(@, msg.text)]
       ELSE c
  ELSE IF msg.type = "execute_result" THEN [c EXCEPT !.result = msg.text]
  ELSE IF msg.type = "status" /\ msg.name = "idle" THEN [c EXCEPT !.execution_complete = TRUE]
  ELSE IF msg.type = "error"
       THEN [c EXCEPT !.stderr = Append(@, msg.text), !.execution_complete = TRUE]
  ELSE c

\* Lines 185-205: one iopub message.
Classify(c, msg) ==
  IF msg.type = "stream"
  THEN IF msg.name = "stdout" THEN [c EXCEPT !.stdout = Append(@, msg.text)]
       ELSE IF msg.name = "stderr" THEN [c EXCEPT !.stderr = Append(@, msg.text)]
       ELSE c
  ELSE IF msg.type = "execute_result" THEN [c EXCEPT !.result = msg.text]
  ELSE IF msg.type = "status" /\ msg.name = "idle" THEN [c EXCEPT !.execution_complete = TRUE]
  ELSE IF msg.type = "error"
       THEN [c EXCEPT !.stderr = Append(@, msg.text), !.execution_complete = TRUE]
  ELSE c

\* Lines 172-176 and 230-235: the loop condition, the budget check, the return.
LoopHead(c) ==
  IF c.execution_complete THEN Finish(c, "dict")
  ELSE IF c.elapsed >= c.timeout THEN BudgetExhausted(c)
  ELSE [c EXCEPT !.pc = "iopub"]

\* Lines 230-235: the dictionary execute_code returns. A text is kept as the
\* sequence of the chunks that ''.join concatenates; success looks at the list.
ResultDict(c) ==
  [stdout |-> c.stdout, stderr |-> c.stderr, result |-> c.result,
   success |-> Len(c.stderr) = 0]

\* The drain loop run over a whole message sequence (no timeout, no shell poll).
RECURSIVE Drain(_, _)
Drain(c, msgs) ==
  IF msgs = <<>> \/ c.execution_complete THEN c
  ELSE Drain(Classify(c, Head(msgs)), Tail(msgs))

\* The code raises nothing in an interpreter where x is bound to `x`.
RaisesNoError(code, x) == code = "assign" \/ (x # 0 /\ code # "fail")

\* What execute_code returns for `code` run locally to completion.
LocalResult(code, x) ==
  ResultDict(Drain(NoCall, SelectSeq(Emit(code, x, 0), LAMBDA msg : msg.chan = "iopub")))

\* Mutant of Later: the clock of the call stands still.
LaterFrozen(c, d) == c

\* kernel_manager.py:174  elapsed = time.time() - start_time after a wait of d seconds
\* (all values at or beyond the budget behave alike, so the clock stops there).
Later(c, d) == [c EXCEPT !.elapsed = IF @ + d > c.timeout THEN c.timeout ELSE @ + d]

\* Mutant of ExtendsTtl: the TTL extension moved in front of the locality test.
ExtendsTtlAlways(local) == TRUE

\* kernel_manager.py:152-153  extend_session_ttl comes after the branch for a session
\* that is not local (lines 120-149), which always returns or raises: the extension
\* runs for a locally held session only.
ExtendsTtl(local) == local

\* execute_code from its first line to its first await (lines 117-181).
ExecBegin(t, m, s, code, timeout, fwd) ==
  /\ Free(t)
  /\ LET c == [NoCall EXCEPT !.op = "execute", !.m = m, !.sid = s, !.code = code,
                             !.timeout = timeout, !.fwd = fwd,
                             !.extended = ExtendsTtl(ClientOf(m, s) # 0)]
     IN IF ClientOf(m, s) = 0
        THEN /\ UNCHANGED <<nextMsg, shell_requests>>
             /\ IF fwd
                THEN \E up \in BOOLEAN :
                     LET machine_id == get_session_machine(m, s, up)
                         c1 == [c EXCEPT !.lookup = machine_id, !.degraded = ~up]
                     IN IF Escapes(up)
                        THEN /\ Settle(t, Finish([c EXCEPT !.degraded = TRUE], "RedisError"))
                             /\ UNCHANGED forwards
                        ELSE
                        IF machine_id # NoMachine /\ machine_id # m
                        THEN IF Binds(ForwardKeywords, ForwardParameters)
                             THEN /\ forwards' = forwards \cup
                                       {[to |-> machine_id, session_id |-> s, code |-> code,
                                         timeout |-> timeout]}
                                  /\ Settle(t, [c1 EXCEPT !.pc = "forwarding"])
                             ELSE /\ Settle(t, Finish(c1, "TypeError"))
                                  /\ UNCHANGED forwards
                        ELSE /\ Settle(t, Finish(c1, NotFoundKind(machine_id)))
                             /\ UNCHANGED forwards
                ELSE /\ Settle(t, Finish(c, "NotFound"))
                     /\ UNCHANGED forwards
             /\ \E up \in BOOLEAN :
                  registry' = IF c.extended THEN extend_session_ttl(registry, m, s, up)
                              ELSE registry
        ELSE /\ nextMsg <= MaxExecs
             /\ \E up \in BOOLEAN :
                  LET kc == ClientOf(m, s)
                      request == [msg_id |-> nextMsg, code |-> code, token |-> s]
                      c1 == [c EXCEPT !.kc = kc]
                  IN /\ registry' = extend_session_ttl(registry, m, s, up)
                     /\ IF Escapes(up)
                        THEN /\ Settle(t, Finish([c1 EXCEPT !.degraded = TRUE], "RedisError"))
                             /\ UNCHANGED <<nextMsg, shell_requests>>
                        ELSE /\ nextMsg' = nextMsg + 1
                             /\ shell_requests' = [shell_requests EXCEPT ![kc] =
                                                     IF alive[kc] THEN Append(@, request) ELSE @]
                             /\ Settle(t, LoopHead([c1 EXCEPT !.msg_id = nextMsg]))
             /\ UNCHANGED forwards
  /\ Begun
  /\ UNCHANGED <<svcVars, kmVars, nextSession, alive, ns, pending, iopub, shell_replies, interrupts>>

\* Lines 180-205: get_iopub_msg delivers a message within its second.
ExecIopub(t) ==
  /\ calls[t].op = "execute" /\ calls[t].pc = "iopub"
  /\ iopub[calls[t].kc] # <<>>
  /\ \E d \in {0, 1} :
       /\ d = 0 => Len(calls[t].stdout) < MaxChunks
       /\ Settle(t, LoopHead(Classify(Later(calls[t], d), Head(iopub[calls[t].kc]))))
  /\ iopub' = Reclaim([iopub EXCEPT ![calls[t].kc] = Tail(@)], alive, calls')
  /\ shell_replies' = ReclaimShell(shell_replies, calls')
  /\ UNCHANGED <<svcVars, kmVars, regVars, idVars, alive, ns, shell_requests, pending, interrupts>>

\* Lines 207-213: no iopub message for a second; the shell channel is tried next.
ExecIopubTimeout(t) ==
  /\ calls[t].op = "execute" /\ calls[t].pc = "iopub"
  /\ iopub[calls[t].kc] = <<>>
  /\ Settle(t, [Later(calls[t], 1) EXCEPT !.pc = "shell"])
  /\ UNCHANGED <<svcVars, kmVars, regVars, idVars, kernelVars>>

\* kernel_manager.py:211  get_shell_msg(msg_id): the reply to the call's request
ReplyTo(c) == SelectSeq(shell_replies[c.kc], LAMBDA r : r.parent = c.msg_id)

\* Lines 214-219: a shell reply is there: the execution is complete.
ExecShell(t) ==
  /\ calls[t].op = "execute" /\ calls[t].pc = "shell"
  /\ ReplyTo(calls[t]) # <<>>
  /\ LET shell_msg == Head(ReplyTo(calls[t]))
         c == calls[t]
         c1 == IF shell_msg.name = "error"
               THEN [c EXCEPT !.stderr = Append(@, shell_msg.text)] ELSE c
     IN Settle(t, LoopHead([c1 EXCEPT !.execution_complete = TRUE]))
  /\ shell_replies' = ReclaimShell(shell_replies, calls')
  /\ iopub' = Reclaim(iopub, alive, calls')
  /\ UNCHANGED <<svcVars, kmVars, regVars, idVars, alive, ns, shell_requests, pending, interrupts>>

\* Lines 220-222: no shell reply within 0.1 s: back to the loop head.
ExecShellTimeout(t) ==
  /\ calls[t].op = "execute" /\ calls[t].pc = "shell"
  /\ ReplyTo(calls[t]) = <<>>
  /\ Settle(t, LoopHead(calls[t]))
  /\ iopub' = Reclaim(iopub, alive, calls')
  /\ shell_replies' = ReclaimShell(shell_replies, calls')
  /\ UNCHANGED <<svcVars, kmVars, regVars, idVars, alive, ns, shell_requests, pending, interrupts>>

\* The store drops a key whose time to live ran out.
Expire(s) ==
  /\ registry[s] # NoMachine
  /\ registry' = [registry EXCEPT ![s] = NoMachine]
  /\ UNCHANGED <<svcVars, kmVars, forwards, idVars, kernelVars, calls, returned>>

Next ==
  \/ \E t \in Tasks, m \in Machines : CreateBegin(t, m)
  \/ \E t \in Tasks : CreateAcquire(t)
  \/ \E t \in Tasks : CreateStarted(t)
  \/ \E t \in Tasks : CreateReady(t)
  \/ \E t \in Tasks : CreateCleanup(t)
  \/ \E t \in Tasks, m \in Machines, s \in SessionIds : DeleteBegin(t, m, s)
  \/ \E t \in Tasks : DeleteShutdown(t)
  \/ \E s \in SessionIds : Expire(s)
  \/ \E p \in SessionIds : KernelStep(p)
  \/ \E t \in Tasks, m \in Machines, s \in SessionIds, code \in Codes, timeout \in Timeouts,
        fwd \in BOOLEAN : ExecBegin(t, m, s, code, timeout, fwd)
  \/ \E t \in Tasks : ExecIopub(t)
  \/ \E t \in Tasks : ExecIopubTimeout(t)
  \/ \E t \in Tasks : ExecShell(t)
  \/ \E t \in Tasks : ExecShellTimeout(t)

\* execute_code called while no other call is running: the requests of a client
\* that waits for each answer before it sends the next.
SerialExecBegin(t, m, s, code, timeout, fwd) ==
  /\ \A u \in Tasks : calls[u].pc = "free"
  /\ ExecBegin(t, m, s, code, timeout, fwd)

SerialNext ==
  \/ \E t \in Tasks, m \in Machines : CreateBegin(t, m)
  \/ \E t \in Tasks : CreateAcquire(t)
  \/ \E t \in Tasks : CreateStarted(t)
  \/ \E t \in Tasks : CreateReady(t)
  \/ \E t \in Tasks : CreateCleanup(t)
  \/ \E p \in SessionIds : KernelStep(p)
  \/ \E t \in Tasks, m \in Machines, s \in SessionIds, code \in Codes, timeout \in Timeouts,
        fwd \in BOOLEAN : SerialExecBegin(t, m, s, code, timeout, fwd)
  \/ \E t \in Tasks : ExecIopub(t)
  \/ \E t \in Tasks : ExecIopubTimeout(t)
  \/ \E t \in Tasks : ExecShell(t)
  \/ \E t \in Tasks : ExecShellTimeout(t)

\* --------------------------------------------------------- ContainerManager
\* A call of the service layer ends: it becomes the last one.
XEnd(x) ==
  /\ xlast' = x
  /\ xprev' = xlast

\* redis_client.get: the stored id as bytes (the client is made without
\* decode_responses), None when there is no key.
RedisGet(u) ==
  IF user_container[u] = 0 THEN None ELSE [type |-> "bytes", v |-> user_container[u]]

\* Only bytes has a decode method in Python 3; on a str the call raises AttributeError.
HasDecode(value) == value.type = "bytes"

Decode(value) == [type |-> "str", v |-> value.v]

\* The engine refuses a name that a container, running or stopped, already has.
NameTaken(u) ==
  \E c \in SessionIds : containers[c].status # "absent" /\ containers[c].name = u

\* What the caller of get_or_create_container gets; `seen` is the status of the
\* container the previous call returned, at the moment this call is made.
ContainerCall(u, ret, c) ==
  [NoXCall EXCEPT !.op = "get_or_create_container", !.user = u, !.ret = ret, !.id = c,
                  !.seen = IF xlast.id = 0 THEN "-" ELSE containers[xlast.id].status]

\* _is_kernel_ready (241-278) for a running container: the file
\* <workspace_root>/<user_id>/kernel/connection.json exists and parses as JSON,
\* whoever wrote it.
IsKernelReady(u, c, files) == files[u] # 0

\* Lines 157-170 and _create_container (172-222): run the container under the name
\* orca-user-<user_id>, wait for its kernel, store the mapping. `evict` says whether
\* the stale mapping was deleted on the way (lines 150, 155); `boots` whether the
\* kernel of the new container writes its connection file within the 30 polls. The
\* kernel directory is made with exist_ok=True (188): a file already there stays.
CreateAndStore(u, evict, boots) ==
  LET mapping == IF evict THEN [user_container EXCEPT ![u] = 0] ELSE user_container
      c == nextContainer
      files == IF boots THEN [connection_file EXCEPT ![u] = c] ELSE connection_file
      ready == IsKernelReady(u, c, files)
  IN IF NameTaken(u)
     THEN /\ user_container' = mapping
          /\ XEnd(ContainerCall(u, "Conflict", 0))
          /\ UNCHANGED <<containers, last_used, nextContainer, connection_file, alive>>
     ELSE /\ nextContainer <= MaxSessionIds
          /\ nextContainer' = c + 1
          /\ containers' = [containers EXCEPT ![c] = [status |-> "running", name |-> u,
                                                     engine |-> EngineOf("mA")]]
          /\ alive' = [alive EXCEPT ![c] = boots]
          /\ connection_file' = files
          /\ IF ready
             THEN /\ user_container' = IF redis_client THEN [mapping EXCEPT ![u] = c]
                                       ELSE mapping
                  /\ last_used' = IF redis_client THEN last_used \cup {c} ELSE last_used
                  /\ XEnd(ContainerCall(u, "ok", c))
             ELSE /\ user_container' = mapping
                  /\ UNCHANGED last_used
                  /\ XEnd(ContainerCall(u, "KernelFailedToStart", 0))

\* Lines 134-155: the cached container is fetched from the engine; it is returned when
\* running, otherwise the mapping is deleted and a new container made.
ReuseOrReplace(u, c, ready) ==
  IF containers[c].status = "running"
  THEN /\ last_used' = IF redis_client THEN last_used \cup {c} ELSE last_used
       /\ XEnd(ContainerCall(u, "ok", c))
       /\ UNCHANGED <<containers, user_container, nextContainer, connection_file, alive>>
  ELSE CreateAndStore(u, redis_client, ready)

\* The ways to reach the engine, in the order of the branches of
\* _ensure_docker_client (56-102): the TCP endpoint of DOCKER_HOST, a socket file
\* found on disk, the unix:// endpoint of DOCKER_HOST, docker.from_env().
DockerMethods == <<"tcp", "socket", "unix", "from_env">>

\* What DOCKER_HOST holds: nothing, a tcp:// URL, a unix:// URL.
DockerHosts == {"", "tcp", "unix"}

\* The environments of a process: DOCKER_HOST, whether a socket file was found
\* (get_docker_socket_path of cloud_config.py:12-62, or the list at lines 75-83), and
\* the methods whose ping would be answered. A method that has nothing to connect to
\* is not among them.
DockerEnvironments ==
  {e \in [docker_host : DockerHosts, socket_path : BOOLEAN,
          connects : SUBSET Range(DockerMethods)] :
     /\ "tcp" \in e.connects => e.docker_host = "tcp"
     /\ "unix" \in e.connects => e.docker_host = "unix"
     /\ "socket" \in e.connects => e.socket_path}

\* container_manager.py:53-102  the one method _ensure_docker_client attempts: the
\* branches are chosen by the configuration, not by the failure of an earlier one.
Attempted(e) ==
  IF e.docker_host = "tcp" THEN "tcp"
  ELSE IF e.socket_path THEN "socket"
  ELSE IF e.docker_host = "unix" THEN "unix"
  ELSE "from_env"

\* get_or_create_container (112-170), a synchronous method: one step. e: the
\* environment of the first connection to the engine; up: the Redis server answers
\* (an error of a Redis command is not caught here); ready: the connection file
\* appears in time.
GetOrCreateContainer(u) ==
  /\ xcall.pc = "free" /\ started < MaxCalls
  /\ Begun
  /\ \E e \in DockerEnvironments, up \in BOOLEAN, ready \in BOOLEAN :
       IF ~docker_initialized /\ Attempted(e) \notin e.connects
       THEN /\ XEnd([ContainerCall(u, "DockerConnectionFailed", 0)
                       EXCEPT !.fallback = e.connects # {}])
            /\ UNCHANGED <<docker_initialized, containers, user_container, last_used,
                           nextContainer, connection_file, alive>>
       ELSE /\ docker_initialized' = TRUE
            /\ IF redis_client /\ ~up
               THEN /\ XEnd(ContainerCall(u, "RedisError", 0))
                    /\ UNCHANGED <<containers, user_container, last_used, nextContainer, connection_file, alive>>
               ELSE LET container_id_bytes == IF redis_client THEN RedisGet(u) ELSE None
                        container_id == IF container_id_bytes # None
                                        THEN Decode(container_id_bytes) ELSE None
                    IN IF container_id # None
                       THEN IF HasDecode(container_id)
                            THEN ReuseOrReplace(u, Decode(container_id).v, ready)
                            ELSE /\ XEnd(ContainerCall(u, "AttributeError", 0))
                                 /\ UNCHANGED <<containers, user_container, last_used,
                                                nextContainer, connection_file, alive>>
                       ELSE CreateAndStore(u, FALSE, ready)
  /\ UNCHANGED <<kmVars, regVars, nextSession, nextMsg, ns, shell_requests, pending, iopub,
                 shell_replies, interrupts, calls, returned, redis_client, xcall>>

\* Someone outside stops a running container (docker stop): its kernel dies with it.
StopContainer(c) ==
  /\ containers[c].status = "running"
  /\ containers' = [containers EXCEPT ![c].status = "exited"]
  /\ alive' = [alive EXCEPT ![c] = FALSE]
  /\ pending' = [pending EXCEPT ![c] = <<>>]
  /\ shell_requests' = [shell_requests EXCEPT ![c] = <<>>]
  /\ UNCHANGED <<kmVars, regVars, idVars, ns, iopub, shell_replies, interrupts, calls,
                 returned, docker_initialized, redis_client, user_container, last_used,
                 nextContainer, connection_file, xcall, xlast, xprev>>

\* Someone outside removes a stopped container (docker rm): its name is free again.
RemoveContainer(c) ==
  /\ containers[c].status = "exited"
  /\ containers' = [containers EXCEPT ![c] = NoContainer]
  /\ UNCHANGED <<kmVars, regVars, idVars, kernelVars, calls, returned, docker_initialized,
                 redis_client, user_container, last_used, nextContainer, connection_file, xcall, xlast, xprev>>

\* ------------------------------------ get_or_create_container, several processes
\* Each machine runs a process with its own ContainerManager, connected to the
\* engine of its machine and to the one cache store. A process runs one call at a
\* time (the method blocks); calls of different processes interleave at their
\* requests to the store and to the engine.
NameTakenOn(engine, u) ==
  \E c \in SessionIds :
    containers[c].status # "absent" /\ containers[c].name = u /\ containers[c].engine = engine

\* Lines 125-133: the lookup of the mapping; a mapping that is found ends the call
\* in the second decode.
TenantLookup(t, m, u) ==
  /\ Free(t) /\ Begun
  /\ \A o \in Tasks : calls[o].pc # "free" => calls[o].m # m
  /\ redis_client
  /\ LET c == [NoCall EXCEPT !.op = "get_or_create_container", !.m = m, !.user = u]
         container_id_bytes == RedisGet(u)
         container_id == IF container_id_bytes # None THEN Decode(container_id_bytes) ELSE None
     IN IF container_id # None /\ ~HasDecode(container_id)
        THEN Settle(t, Finish(c, "AttributeError"))
        ELSE Settle(t, [c EXCEPT !.pc = "creating"])
  /\ UNCHANGED <<svcVars, kmVars, regVars, nextSession, nextMsg, kernelVars>>

\* Lines 157-170: containers.run under the tenant's name on the engine of the
\* process, the wait for the connection file, the mapping stored.
TenantCreate(t) ==
  /\ calls[t].op = "get_or_create_container" /\ calls[t].pc = "creating"
  /\ LET m == calls[t].m
         u == calls[t].user
         c == nextContainer
     IN IF NameTakenOn(EngineOf(m), u)
        THEN /\ Settle(t, Finish(calls[t], "Conflict"))
             /\ UNCHANGED <<containers, user_container, last_used, nextContainer,
                            connection_file, alive>>
        ELSE /\ nextContainer <= MaxSessionIds
             /\ nextContainer' = c + 1
             /\ containers' = [containers EXCEPT ![c] = [status |-> "running", name |-> u,
                                                        engine |-> EngineOf(m)]]
             /\ \E ready \in BOOLEAN :
                  /\ alive' = [alive EXCEPT ![c] = ready]
                  /\ IF ready
                     THEN /\ user_container' = [user_container EXCEPT ![u] = c]
                          /\ last_used' = last_used \cup {c}
                          /\ Settle(t, Finish([calls[t] EXCEPT !.sid = c], "ok"))
                     ELSE /\ Settle(t, Finish(calls[t], "KernelFailedToStart"))
                          /\ UNCHANGED <<user_container, last_used>>
             /\ UNCHANGED connection_file
  /\ UNCHANGED <<kmVars, regVars, idVars, ns, shell_requests, pending, iopub, shell_replies,
                 interrupts, docker_initialized, redis_client, xcall, xlast, xprev>>

TenantNext ==
  \/ \E t \in Tasks, m \in Machines, u \in Users : TenantLookup(t, m, u)
  \/ \E t \in Tasks : TenantCreate(t)
  \/ \E c \in SessionIds : StopContainer(c)
  \/ \E c \in SessionIds : RemoveContainer(c)

TenantSpec == Init /\ [][TenantNext]_vars

\* ------------------------------------------------------ Executor._execute_code
TimeoutNote == "Execution timeout"
KeyboardInterrupt == "KeyboardInterrupt"

\* What an interrupt does to the interpreter: the running request ends with
\* KeyboardInterrupt; an idle interpreter ignores it.
Interrupted(todo) ==
  IF todo = <<>> THEN <<>>
  ELSE LET id == Head(todo).parent
       IN <<IopubMsg("error", "", KeyboardInterrupt, id),
            ShellMsg("error", KeyboardInterrupt, id), IopubMsg("status", "idle", "", id)>>

\* executor.py:139  the budget test at the head of the loop (strictly greater)
OverBudget(x) == x.elapsed > x.timeout

\* Mutant of PlotEntries: every display_data message gives an entry.
PlotEntriesAlways(msg) == <<[type |-> "image", format |-> "png", data |-> msg.text]>>

\* executor.py:164-180  the entry appended to plots for a display_data message: the
\* first of image/png, image/jpeg, text/html its data holds; none for other data.
PlotEntries(msg) ==
  IF "image/png" \in msg.data
  THEN <<[type |-> "image", format |-> "png", data |-> msg.text]>>
  ELSE IF "image/jpeg" \in msg.data
  THEN <<[type |-> "image", format |-> "jpeg", data |-> msg.text]>>
  ELSE IF "text/html" \in msg.data
  THEN <<[type |-> "html", format |-> "-", data |-> msg.text]>>
  ELSE <<>>

\* executor.py:150-198  one iopub message; TRUE in `stop` is the break.
XClassify(x, msg) ==
  IF msg.type = "stream"
  THEN [x |-> IF msg.name = "stdout" THEN [x EXCEPT !.stdout = Append(@, msg.text)]
              ELSE IF msg.name = "stderr" THEN [x EXCEPT !.stderr = Append(@, msg.text)]
              ELSE x,
        stop |-> FALSE]
  ELSE IF msg.type = "display_data"
  THEN [x |-> [x EXCEPT !.plots = @ \o PlotEntries(msg)], stop |-> FALSE]
  ELSE IF msg.type = "execute_result"
  THEN [x |-> [x EXCEPT !.results = Append(@, msg.text)], stop |-> FALSE]
  ELSE IF msg.type = "status"
  THEN [x |-> x, stop |-> msg.name = "idle"]
  ELSE IF msg.type = "error"
  THEN [x |-> [x EXCEPT !.stderr = Append(@, msg.text)], stop |-> TRUE]
  ELSE [x |-> x, stop |-> FALSE]

\* Lines 137-142 after an iteration that did (stop) or did not break: the next wait on
\* iopub, or the interrupt and the timeout note, or the way to the final reply.
XLoopHead(x, stop) ==
  /\ IF ~stop /\ OverBudget(x)
     THEN /\ interrupts' = interrupts \cup {x.kc}
          /\ pending' = [pending EXCEPT ![x.kc] = Interrupted(@)]
          /\ xcall' = [x EXCEPT !.stderr = Append(@, TimeoutNote), !.pc = "final"]
     ELSE /\ xcall' = [x EXCEPT !.pc = IF stop THEN "final" ELSE "iopub"]
          /\ UNCHANGED <<interrupts, pending>>

\* _execute_code from its first line to the first get_iopub_msg (125-146), on a client
\* connected to the kernel of a running container.
XBegin(p, code, timeout) ==
  /\ xcall.pc = "free" /\ started < MaxCalls
  /\ containers[p].status = "running" /\ alive[p]
  /\ nextMsg <= MaxExecs
  /\ nextMsg' = nextMsg + 1
  /\ Begun
  /\ shell_requests' = [shell_requests EXCEPT ![p] =
                          Append(@, [msg_id |-> nextMsg, code |-> code, token |-> p])]
  /\ xcall' = [NoXCall EXCEPT !.op = "_execute_code", !.kc = p, !.code = code,
                              !.timeout = timeout, !.msg_id = nextMsg, !.pc = "iopub"]
  /\ UNCHANGED <<kmVars, regVars, nextSession, alive, ns, pending, iopub, shell_replies,
                 interrupts, calls, returned, docker_initialized, redis_client, containers,
                 user_container, last_used, nextContainer, connection_file, xlast, xprev>>

\* Lines 146-198: get_iopub_msg(timeout=1) returns a message.
XIopub(p) ==
  /\ xcall.op = "_execute_code" /\ xcall.pc = "iopub" /\ xcall.kc = p
  /\ iopub[p] # <<>>
  /\ iopub' = [iopub EXCEPT ![p] = Tail(@)]
  /\ \E d \in {0, 1} :
       /\ d = 0 => Len(xcall.stdout) < MaxChunks
       /\ LET r == XClassify([xcall EXCEPT !.elapsed = @ + d], Head(iopub[p]))
          IN XLoopHead(r.x, r.stop)
  /\ UNCHANGED <<kmVars, regVars, idVars, alive, ns, shell_requests, shell_replies, calls,
                 returned, docker_initialized, redis_client, containers, user_container,
                 last_used, nextContainer, connection_file, xlast, xprev>>

\* Lines 200-206: get_iopub_msg raises after its second without a message. The loop
\* goes on only if the text of the exception holds "timeout"; otherwise it breaks.
XIopubEmpty(p) ==
  /\ xcall.op = "_execute_code" /\ xcall.pc = "iopub" /\ xcall.kc = p
  /\ iopub[p] = <<>>
  /\ \E says_timeout \in BOOLEAN :
       XLoopHead([xcall EXCEPT !.elapsed = @ + 1, !.broke = ~says_timeout], ~says_timeout)
  /\ UNCHANGED <<kmVars, regVars, idVars, alive, ns, shell_requests, iopub, shell_replies,
                 calls, returned, docker_initialized, redis_client, containers,
                 user_container, last_used, nextContainer, connection_file, xlast, xprev>>

\* Lines 208-226: get_shell_msg(msg_id, timeout=1) gives the reply, and success is its
\* status; when it raises, success is "stderr is empty". Then the dictionary.
XFinal(p) ==
  /\ xcall.op = "_execute_code" /\ xcall.pc = "final" /\ xcall.kc = p
  /\ LET replies == SelectSeq(shell_replies[p], LAMBDA r : r.parent = xcall.msg_id)
         success == IF replies # <<>> THEN Head(replies).name = "ok"
                    ELSE Len(xcall.stderr) = 0
     IN XEnd([xcall EXCEPT !.pc = "done", !.ret = "dict", !.success = success,
                           !.elapsed = 0, !.msg_id = 0])
  /\ xcall' = NoXCall
  /\ shell_replies' = [shell_replies EXCEPT ![p] =
                         SelectSeq(@, LAMBDA r : r.parent # xcall.msg_id)]
  /\ UNCHANGED <<kmVars, regVars, idVars, alive, ns, shell_requests, pending, iopub,
                 interrupts, calls, returned, docker_initialized, redis_client, containers,
                 user_container, last_used, nextContainer, connection_file>>

\* executor.py:40-60  Executor.execute hands on the dictionary of _execute_code; what
\* get_or_create_container or _execute_code raises becomes an error dictionary.
ExecuteReturns(x) ==
  IF x.ret = "dict"
  THEN [stdout |-> x.stdout, stderr |-> x.stderr, plots |-> x.plots, results |-> x.results,
        success |-> x.success]
  ELSE [stdout |-> <<>>, stderr |-> <<"Execution error: ", x.ret>>, plots |-> <<>>,
        results |-> <<>>, success |-> FALSE]

\* ------------------------------------------------------------ MachineForwarder
\* What the HTTP call can end with: a 2xx response, or one of the httpx.HTTPError
\* exceptions (ConnectError, HTTPStatusError from raise_for_status, TimeoutException).
HttpOutcomes == {"2xx", "ConnectError", "HTTPStatusError", "TimeoutException"}

\* forward_execute_request to its await of client.post (lines 32-42).
ForwardBegin(machine_address, s, code, timeout) ==
  /\ xcall.pc = "free" /\ started < MaxCalls
  /\ Begun
  /\ forwards' = forwards \cup {[to |-> machine_address, session_id |-> s, code |-> code,
                                 timeout |-> timeout]}
  /\ xcall' = [NoXCall EXCEPT !.op = "forward_execute_request", !.target = machine_address,
                              !.id = s, !.code = code, !.timeout = timeout, !.pc = "posted"]
  /\ UNCHANGED <<kmVars, registry, nextSession, nextMsg, kernelVars, calls, returned,
                 docker_initialized, redis_client, containers, user_container, last_used,
                 nextContainer, connection_file, xlast, xprev>>

\* Lines 43-53: the response is normalized to stdout, stderr, result, success; an
\* httpx.HTTPError is raised again as Exception("Failed to forward request to ...").
ForwardEnd ==
  /\ xcall.op = "forward_execute_request" /\ xcall.pc = "posted"
  /\ \E outcome \in HttpOutcomes, remote_success \in BOOLEAN :
       XEnd(IF outcome = "2xx"
            THEN [xcall EXCEPT !.pc = "done", !.ret = "dict", !.success = remote_success]
            ELSE [xcall EXCEPT !.pc = "done", !.ret = "ForwardFailure"])
  /\ xcall' = NoXCall
  /\ UNCHANGED <<kmVars, regVars, idVars, kernelVars, calls, returned, docker_initialized,
                 redis_client, containers, user_container, last_used, nextContainer, connection_file>>

\* ------------------------------------------------------------- error kinds
\* The Python class of each failure the session layer raises, as the raise statements
\* name it: kernel_manager.py:38 and 104 (Exception), 145-149 (ValueError), 176
\* (TimeoutError), 228 (Exception), machine_forwarder.py:53 (Exception).
ExceptionClass(failure) ==
  CASE failure \in {"NotFound", "NotFoundLocal"} -> "ValueError"
    [] failure = "Timeout" -> "TimeoutError"
    [] failure \in {"Capacity", "StartupFailure", "KernelCommunication",
                    "ForwardFailure"} -> "Exception"
    [] OTHER -> failure

\* routers/sessions.py:73-81  the status code and the detail prefix of the execute
\* endpoint for an exception of a class.
EndpointError(class) ==
  CASE class = "ValueError" -> [status |-> 404, detail |-> ""]
    [] class = "TimeoutError" -> [status |-> 408, detail |-> ""]
    [] OTHER -> [status |-> 500, detail |-> "Execution error: "]

\* ------------------------------------------------------- output collection
\* The messages a kernel can have put on iopub for a request: stream output on
\* stdout and stderr, computed results, an error, status idle and status busy.
IopubAlphabet ==
  {IopubMsg("stream", "stdout", "a", 1), IopubMsg("stream", "stdout", "b", 1),
   IopubMsg("stream", "stderr", "e", 1), IopubMsg("execute_result", "", "r", 1),
   IopubMsg("execute_result", "", "q", 1), IopubMsg("error", "", Traceback, 1),
   IopubMsg("status", "idle", "", 1), IopubMsg("status", "busy", "", 1)}

Buffers == UNION {[1..n -> IopubAlphabet] : n \in 0..MaxMsgs}

\* execute_code has submitted request 1 on session 1 of machine mA and is at its
\* first wait (kernel_manager.py:155-181); the kernel has answered with any buffer
\* of messages and with or without its shell reply.
CollectInit ==
  /\ InitServices(TRUE)
  /\ kernels = [m \in Machines |-> [s \in SessionIds |-> IF m = "mA" /\ s = 1 THEN 1 ELSE 0]]
  /\ kernel_clients = kernels
  /\ startup_lock = [m \in Machines |-> NoTask]
  /\ session_dirs = {1}
  /\ _kernels = {}
  /\ registry = [s \in SessionIds |-> IF s = 1 THEN "mA" ELSE NoMachine]
  /\ forwards = {}
  /\ nextSession = 2
  /\ nextMsg = 2
  /\ started = 2
  /\ alive = [p \in SessionIds |-> p = 1]
  /\ ns = [p \in SessionIds |-> 0]
  /\ shell_requests = [p \in SessionIds |-> <<>>]
  /\ pending = [p \in SessionIds |-> <<>>]
  /\ \E buffer \in Buffers : iopub = [p \in SessionIds |-> IF p = 1 THEN buffer ELSE <<>>]
  /\ \E reply \in {<<>>, <<ShellMsg("ok", "", 1)>>, <<ShellMsg("error", Traceback, 1)>>} :
       shell_replies = [p \in SessionIds |-> IF p = 1 THEN reply ELSE <<>>]
  /\ interrupts = {}
  /\ calls = [t \in Tasks |->
               IF t = "t1"
               THEN [NoCall EXCEPT !.op = "execute", !.m = "mA", !.sid = 1, !.code = "print",
                                   !.timeout = 2, !.extended = TRUE, !.kc = 1, !.msg_id = 1,
                                   !.pc = "iopub"]
               ELSE NoCall]
  /\ returned = [NoCall EXCEPT !.op = "create", !.m = "mA", !.sid = 1, !.pc = "done",
                               !.ret = "ok"]

CollectNext ==
  \/ \E t \in Tasks : ExecIopub(t)
  \/ \E t \in Tasks : ExecIopubTimeout(t)
  \/ \E t \in Tasks : ExecShell(t)
  \/ \E t \in Tasks : ExecShellTimeout(t)

CollectSpec == CollectInit /\ [][CollectNext]_vars

\* ------------------------------------------------------- the control service
\* src/services/control: one KernelManager, whose methods the endpoints of main.py
\* run in worker threads (anyio.to_thread.run_sync). Every access to _kernels is
\* inside `with self._lock`, and nothing blocks while the lock is held: a locked
\* section is one step. A handle is written as the id of its interpreter.

\* Mutant of Popped: the handle is read and stays in the map.
PoppedKept(k) == _kernels

\* control/kernel_manager.py:76-77  self._kernels.pop(kernel_id, None)
Popped(k) == _kernels \ {k}

\* control/kernel_manager.py:53-73  create_kernel: the interpreter is started and
\* waited for, then the handle is put in the map under a fresh uuid4; what
\* start_kernel or wait_for_ready raises leaves the map alone.
ControlCreateKernel(t) ==
  /\ Free(t) /\ Begun
  /\ nextSession <= MaxSessionIds
  /\ nextSession' = nextSession + 1
  /\ LET k == nextSession
         c == [NoCall EXCEPT !.op = "create_kernel", !.sid = k]
     IN \E outcome \in {"ok", "raise"}, spawned \in BOOLEAN :
          /\ outcome = "ok" => spawned
          /\ alive' = [alive EXCEPT ![k] = spawned]
          /\ _kernels' = IF outcome = "ok" THEN _kernels \cup {k} ELSE _kernels
          /\ Settle(t, Finish(c, IF outcome = "ok" THEN "ok" ELSE "Exception"))
  /\ UNCHANGED <<svcVars, kernels, kernel_clients, startup_lock, session_dirs, regVars,
                 nextMsg, ns, shell_requests, pending, iopub, shell_replies, interrupts>>

\* control/kernel_manager.py:75-79  shutdown_kernel to the end of its locked section:
\* without a handle it returns False.
ControlShutdownBegin(t, k) ==
  /\ Free(t) /\ Begun
  /\ LET c == [NoCall EXCEPT !.op = "shutdown_kernel", !.sid = k]
     IN IF k \in _kernels
        THEN /\ _kernels' = Popped(k)
             /\ Settle(t, [c EXCEPT !.kc = k, !.pc = "stopping"])
        ELSE /\ UNCHANGED _kernels
             /\ Settle(t, Finish(c, "False"))
  /\ UNCHANGED <<svcVars, kernels, kernel_clients, startup_lock, session_dirs, regVars,
                 nextSession, nextMsg, kernelVars>>

\* control/kernel_manager.py:80-88  stop_channels and km.shutdown_kernel(now=True),
\* each in a try whose except passes; then True. `degraded` tells that the shutdown
\* raised.
ControlShutdownEnd(t) ==
  /\ calls[t].op = "shutdown_kernel" /\ calls[t].pc = "stopping"
  /\ LET p == calls[t].kc
     IN \E shutdown_ok \in BOOLEAN :
          /\ alive' = [alive EXCEPT ![p] = IF shutdown_ok THEN FALSE ELSE @]
          /\ ns' = [ns EXCEPT ![p] = IF shutdown_ok THEN 0 ELSE @]
          /\ shell_requests' = [shell_requests EXCEPT ![p] = IF shutdown_ok THEN <<>> ELSE @]
          /\ pending' = [pending EXCEPT ![p] = IF shutdown_ok THEN <<>> ELSE @]
          /\ Settle(t, Finish([calls[t] EXCEPT !.degraded = ~shutdown_ok], "True"))
  /\ UNCHANGED <<svcVars, kmVars, regVars, idVars, iopub, shell_replies, interrupts>>

\* control/main.py:63-69  the execute endpoint: has_kernel, then the worker thread.
ControlExecuteBegin(t, k, code, timeout) ==
  /\ Free(t) /\ Begun
  /\ LET c == [NoCall EXCEPT !.op = "control.execute", !.sid = k, !.code = code,
                             !.timeout = timeout]
     IN IF k \in _kernels
        THEN Settle(t, [c EXCEPT !.pc = "handle"])
        ELSE Settle(t, Finish(c, "NoKernel"))
  /\ UNCHANGED <<svcVars, kmVars, regVars, nextSession, nextMsg, kernelVars>>

\* control/kernel_manager.py:105-106  the deadline test at the head of the loop, and
\* line 113-114 the break on status idle: both leave the loop for the return.
ControlLoopHead(c) ==
  IF c.execution_complete \/ c.elapsed > c.timeout
  THEN Finish(c, "ExecuteResult")
  ELSE [c EXCEPT !.pc = "control.iopub"]

\* control/kernel_manager.py:90-103  execute: the handle is fetched (KeyError without
\* one), the code is sent and the deadline set.
ControlExecuteHandle(t) ==
  /\ calls[t].op = "control.execute" /\ calls[t].pc = "handle"
  /\ LET k == calls[t].sid
     IN IF k \in _kernels
        THEN /\ nextMsg <= MaxExecs
             /\ nextMsg' = nextMsg + 1
             /\ shell_requests' = [shell_requests EXCEPT ![k] =
                    IF alive[k]
                    THEN Append(@, [msg_id |-> nextMsg, code |-> calls[t].code, token |-> k])
                    ELSE @]
             /\ Settle(t, ControlLoopHead([calls[t] EXCEPT !.kc = k, !.msg_id = nextMsg]))
        ELSE /\ Settle(t, Finish(calls[t], "KeyError"))
             /\ UNCHANGED <<nextMsg, shell_requests>>
  /\ UNCHANGED <<svcVars, kmVars, regVars, nextSession, started, alive, ns, pending, iopub,
                 shell_replies, interrupts>>

\* control/kernel_manager.py:110-121  one iopub message: idle ends the loop, the four
\* output types are appended to outputs, anything else is skipped.
ControlClassify(c, msg) ==
  IF msg.type = "status" /\ msg.name = "idle" THEN [c EXCEPT !.execution_complete = TRUE]
  ELSE IF msg.type \in {"execute_result", "display_data", "stream", "error"}
  THEN [c EXCEPT !.outputs = Append(@, msg.text)]
  ELSE c

\* The clock of the call after a wait of d seconds (all values beyond the deadline
\* behave alike).
ControlLater(c, d) ==
  [c EXCEPT !.elapsed = IF @ + d > c.timeout THEN c.timeout + 1 ELSE @ + d]

\* control/kernel_manager.py:107-121  get_iopub_msg(timeout=1) returns a message.
ControlIopub(t) ==
  /\ calls[t].op = "control.execute" /\ calls[t].pc = "control.iopub"
  /\ iopub[calls[t].kc] # <<>>
  /\ \E d \in {0, 1} :
       /\ d = 0 => Len(calls[t].outputs) < MaxChunks
       /\ Settle(t, ControlLoopHead(ControlClassify(ControlLater(calls[t], d),
                                                   Head(iopub[calls[t].kc]))))
  /\ iopub' = [iopub EXCEPT ![calls[t].kc] = Tail(@)]
  /\ UNCHANGED <<svcVars, kmVars, regVars, idVars, alive, ns, shell_requests, pending,
                 shell_replies, interrupts>>

\* control/kernel_manager.py:107-109  no message within the second: the blocking
\* client raises queue.Empty, which leaves execute (nothing catches it there); a
\* client that returned None instead would go round the loop (`if not msg`).
ControlIopubEmpty(t) ==
  /\ calls[t].op = "control.execute" /\ calls[t].pc = "control.iopub"
  /\ iopub[calls[t].kc] = <<>>
  /\ \E raises \in BOOLEAN :
       Settle(t, IF raises THEN Finish(ControlLater(calls[t], 1), "Empty")
                 ELSE ControlLoopHead(ControlLater(calls[t], 1)))
  /\ UNCHANGED <<svcVars, kmVars, regVars, idVars, kernelVars>>

\* control/kernel_manager.py:24-28, 124  the ExecuteResult that execute returns:
\* status is left at its default.
ExecuteResult(c) == [outputs |-> c.outputs, status |-> "ok"]

\* control/main.py:65-74  what the execute endpoint answers for an outcome.
ControlEndpoint(ret) ==
  CASE ret = "ExecuteResult" -> [status |-> 200, detail |-> ""]
    [] ret \in {"NoKernel", "KeyError"} -> [status |-> 404, detail |-> "kernel not found"]
    [] OTHER -> [status |-> 500, detail |-> "execution failed: "]

ControlNext ==
  \/ \E t \in Tasks : ControlCreateKernel(t)
  \/ \E t \in Tasks, k \in SessionIds : ControlShutdownBegin(t, k)
  \/ \E t \in Tasks : ControlShutdownEnd(t)
  \/ \E t \in Tasks, k \in SessionIds, code \in Codes, timeout \in Timeouts :
       ControlExecuteBegin(t, k, code, timeout)
  \/ \E t \in Tasks : ControlExecuteHandle(t)
  \/ \E t \in Tasks : ControlIopub(t)
  \/ \E t \in Tasks : ControlIopubEmpty(t)
  \/ \E p \in SessionIds : KernelStep(p)

ControlSpec == Init /\ [][ControlNext]_vars

\* ------------------------------------------------------ the registry alone
\* One call of a SessionRegistry method by machine m with the store answering (up)
\* or not; the store serves one command at a time. `lookup` keeps what the key held
\* when the command was served.
RegistryCall(op, m, s, up, ret) ==
  [NoCall EXCEPT !.op = op, !.m = m, !.sid = s, !.pc = "done", !.degraded = ~up,
                 !.lookup = registry[s], !.ret = ret]

RegisterSession(m, s) ==
  /\ started < MaxCalls /\ Begun
  /\ \E up \in BOOLEAN :
       /\ registry' = register_session(registry, m, s, up)
       /\ returned' = RegistryCall("register_session", m, s, up, IF up THEN "True" ELSE "False")
  /\ UNCHANGED <<svcVars, kmVars, forwards, nextSession, nextMsg, kernelVars, calls>>

GetSessionMachine(m, s) ==
  /\ started < MaxCalls /\ Begun
  /\ \E up \in BOOLEAN :
       returned' = RegistryCall("get_session_machine", m, s, up, get_session_machine(m, s, up))
  /\ UNCHANGED <<svcVars, kmVars, regVars, nextSession, nextMsg, kernelVars, calls>>

UnregisterSession(m, s) ==
  /\ started < MaxCalls /\ Begun
  /\ \E up \in BOOLEAN :
       /\ registry' = unregister_session(registry, m, s, up)
       /\ returned' = RegistryCall("unregister_session", m, s, up, "None")
  /\ UNCHANGED <<svcVars, kmVars, forwards, nextSession, nextMsg, kernelVars, calls>>

ExtendSessionTtl(m, s) ==
  /\ started < MaxCalls /\ Begun
  /\ \E up \in BOOLEAN :
       /\ registry' = extend_session_ttl(registry, m, s, up)
       /\ returned' = RegistryCall("extend_session_ttl", m, s, up, "None")
  /\ UNCHANGED <<svcVars, kmVars, forwards, nextSession, nextMsg, kernelVars, calls>>

RegistryNext ==
  \/ \E m \in Machines, s \in SessionIds : RegisterSession(m, s)
  \/ \E m \in Machines, s \in SessionIds : GetSessionMachine(m, s)
  \/ \E m \in Machines, s \in SessionIds : UnregisterSession(m, s)
  \/ \E m \in Machines, s \in SessionIds : ExtendSessionTtl(m, s)
  \/ \E s \in SessionIds : Expire(s)

RegistrySpec == Init /\ [][RegistryNext]_vars

\* ------------------------------------------------------- the Executor's collection
\* The messages a kernel can have put on iopub for a request of the Executor: the
\* five categories it handles (display data with a PNG and HTML, with HTML, with
\* plain text only) and two types outside them.
ExecutorAlphabet ==
  {IopubMsg("stream", "stdout", "a", 1), IopubMsg("stream", "stderr", "e", 1),
   DisplayMsg({"image/png", "text/html"}, "p", 1), DisplayMsg({"text/html"}, "h", 1),
   DisplayMsg({"image/jpeg"}, "j", 1), DisplayMsg({"text/plain"}, "t", 1),
   IopubMsg("execute_result", "", "r", 1), IopubMsg("execute_result", "", "q", 1),
   IopubMsg("error", "", Traceback, 1), IopubMsg("status", "idle", "", 1),
   IopubMsg("status", "busy", "", 1), IopubMsg("execute_input", "", "", 1)}

ExecutorBuffers == UNION {[1..n -> ExecutorAlphabet] : n \in 0..MaxMsgs}

\* _execute_code has sent request 1 to the kernel of the running container 1 and is
\* at its first get_iopub_msg (executor.py:134-146); the kernel has answered with
\* any buffer of messages and with or without its shell reply.
XCollectInit ==
  /\ kernels = [m \in Machines |-> [s \in SessionIds |-> 0]]
  /\ kernel_clients = kernels
  /\ startup_lock = [m \in Machines |-> NoTask]
  /\ session_dirs = {}
  /\ _kernels = {}
  /\ registry = [s \in SessionIds |-> NoMachine]
  /\ forwards = {}
  /\ nextSession = 1
  /\ nextMsg = 2
  /\ started = 2
  /\ alive = [p \in SessionIds |-> p = 1]
  /\ ns = [p \in SessionIds |-> 0]
  /\ shell_requests = [p \in SessionIds |-> <<>>]
  /\ pending = [p \in SessionIds |-> <<>>]
  /\ \E buffer \in ExecutorBuffers :
       iopub = [p \in SessionIds |-> IF p = 1 THEN buffer ELSE <<>>]
  /\ \E reply \in {<<>>, <<ShellMsg("ok", "", 1)>>} :
       shell_replies = [p \in SessionIds |-> IF p = 1 THEN reply ELSE <<>>]
  /\ interrupts = {}
  /\ calls = [t \in Tasks |-> NoCall]
  /\ returned = NoCall
  /\ docker_initialized = TRUE
  /\ redis_client = TRUE
  /\ containers = [c \in SessionIds |->
                    IF c = 1 THEN [status |-> "running", name |-> "u1", engine |-> EngineOf("mA")]
                    ELSE NoContainer]
  /\ user_container = [u \in Users |-> IF u = "u1" THEN 1 ELSE 0]
  /\ last_used = {1}
  /\ nextContainer = 2
  /\ connection_file = [u \in Users |-> IF u = "u1" THEN 1 ELSE 0]
  /\ xcall = [NoXCall EXCEPT !.op = "_execute_code", !.kc = 1, !.code = "print",
                             !.timeout = 2, !.msg_id = 1, !.pc = "iopub"]
  /\ xlast = [NoXCall EXCEPT !.op = "get_or_create_container", !.user = "u1",
                             !.ret = "ok", !.id = 1]
  /\ xprev = NoXCall

XCollectNext ==
  \/ \E p \in SessionIds : XIopub(p)
  \/ \E p \in SessionIds : XIopubEmpty(p)
  \/ \E p \in SessionIds : XFinal(p)

XCollectSpec == XCollectInit /\ [][XCollectNext]_vars

\* ------------------------------------------------------------ service layer
ServicesInit == InitSessions /\ \E redis_ok \in BOOLEAN : InitServices(redis_ok)

ServicesNext ==
  \/ \E u \in Users : GetOrCreateContainer(u)
  \/ \E c \in SessionIds : StopContainer(c)
  \/ \E c \in SessionIds : RemoveContainer(c)
  \/ \E p \in SessionIds, code \in Codes, timeout \in Timeouts : XBegin(p, code, timeout)
  \/ \E p \in SessionIds : XIopub(p)
  \/ \E p \in SessionIds : XIopubEmpty(p)
  \/ \E p \in SessionIds : XFinal(p)
  \/ \E p \in SessionIds : KernelStep(p)

ServicesSpec == ServicesInit /\ [][ServicesNext]_vars

ForwarderNext ==
  \/ \E m \in Machines, s \in SessionIds, code \in Codes, timeout \in Timeouts :
       ForwardBegin(m, s, code, timeout)
  \/ ForwardEnd

ForwarderSpec == Init /\ [][ForwarderNext]_vars

\* ------------------------------------------------------------------ claims
\* A step in which a public method is called, and the call it starts: the slot that
\* changed, or what came back when the call ended before its first await.
Begins == started' = started + 1

NewCall ==
  IF \E t \in Tasks : calls'[t] # calls[t]
  THEN calls'[CHOOSE t \in Tasks : calls'[t] # calls[t]]
  ELSE returned'

\* C1: create_session called while the machine's live-session count has reached
\* max_sessions_per_machine fails with the capacity error and allocates nothing: no
\* map entry, no interpreter process, no workspace directory, no registry entry,
\* no session id.
C1_CapacityAllocatesNothing ==
  [][\A m \in Machines :
       (Begins /\ NewCall.op = "create" /\ NewCall.m = m
          /\ LiveCount(m) >= max_sessions_per_machine)
       => /\ NewCall.pc = "done" /\ NewCall.ret = "Capacity"
          /\ UNCHANGED <<kernels, kernel_clients, startup_lock, session_dirs, registry,
                         alive, nextSession>>]_vars

\* A creation was refused on a machine that is at its ceiling.
C1_Witness ==
  /\ returned.op = "create" /\ returned.ret = "Capacity"
  /\ LiveCount(returned.m) = max_sessions_per_machine

\* C2: under every interleaving of create_session and delete_session calls the
\* number of live sessions of a machine never exceeds max_sessions_per_machine.
C2_CeilingNeverExceeded ==
  \A m \in Machines : LiveCount(m) <= max_sessions_per_machine

\* C3: code submitted on session s reaches only the interpreter created for s: the
\* value bound in an interpreter is one assigned through its own session, it stays
\* bound while the interpreter lives, and the output an execution on s collects
\* holds only values assigned on s.
C3_SessionIsolation ==
  [][/\ \A p \in SessionIds :
          /\ ns'[p] \in {0, p}
          /\ (ns[p] = p /\ alive'[p]) => ns'[p] = p
     /\ \A m \in Machines : \A s \in Keys(kernel_clients'[m]) :
          ClientOf(m, s)' = kernels'[m][s]
     /\ returned'.op = "execute"
          => \A i \in 1..Len(returned'.stdout) :
               returned'.stdout[i] = ToString(returned'.sid)]_vars

\* An execution on s printed the value an earlier execution on s had assigned.
C3_Witness ==
  /\ returned.op = "execute" /\ returned.code = "print" /\ returned.ret = "dict"
  /\ returned.stdout = <<ToString(returned.sid)>>
  /\ ns[returned.sid] = returned.sid

\* C4: a local execute_code whose drain loop saw no completion signal (idle status,
\* error message, shell reply) before the budget ran out raises Timeout; a result
\* dictionary is returned only after a completion signal.
C4_NoSilentTruncation ==
  (returned.op = "execute" /\ returned.kc # 0)
  => \/ returned.ret = "dict" /\ returned.execution_complete
     \/ returned.ret = "Timeout" /\ ~returned.execution_complete

\* Output had been collected when the budget ran out, and the call raised Timeout.
C4_Witness ==
  /\ returned.op = "execute" /\ returned.ret = "Timeout"
  /\ returned.stdout # <<>>

\* C5: whenever execute_code ends with Timeout, an interrupt was sent to the
\* session's interpreter before the error is surfaced.
C5_TimeoutInterrupts ==
  (returned.op = "execute" /\ returned.ret = "Timeout") => returned.kc \in interrupts

\* C6: delete_session is idempotent: the second of two calls in a row for the same
\* session never raises.
C6_SecondDeleteNeverRaises ==
  (returned.op = "delete" /\ returned.again) => returned.ret = "ok"

\* C6, the part that holds: a delete of a session absent from the local map returns
\* without raising and leaves kernels and kernel_clients unchanged, and after a
\* delete that returned the session is absent from the map.
C6_AbsentDeleteIsNoOp ==
  [][/\ \A m \in Machines, s \in SessionIds :
          (Begins /\ NewCall.op = "delete" /\ NewCall.m = m /\ NewCall.sid = s
             /\ kernels[m][s] = 0)
          => /\ NewCall.pc = "done" /\ NewCall.ret = "ok"
             /\ UNCHANGED <<kernels, kernel_clients>>
     /\ (returned'.op = "delete" /\ returned'.ret = "ok")
          => kernels'[returned'.m][returned'.sid] = 0]_vars

\* A delete of a session that had been created and is gone from the map returned.
C6_Witness ==
  /\ returned.op = "delete" /\ returned.ret = "ok" /\ returned.kc = 0
  /\ returned.again
  /\ returned.sid \in session_dirs /\ ~alive[returned.sid]

\* C7: every delete_session(s) on the machine holding s, whatever the outcome of
\* the interpreter shutdown, ends with s absent from kernels and kernel_clients and
\* with no registry entry for s.
C7_DeleteAlwaysRemoves ==
  (returned.op = "delete" /\ returned.kc # 0)
  => /\ kernels[returned.m][returned.sid] = 0
     /\ kernel_clients[returned.m][returned.sid] = 0
     /\ registry[returned.sid] = NoMachine

\* A call of execute_code that found s absent locally and registered to another
\* machine (forwarding enabled).
OnForwardPath(c) ==
  /\ c.op = "execute" /\ c.kc = 0 /\ c.fwd
  /\ c.lookup \in Machines \ {c.m}

\* C8: when s is not in the local map and the registry resolves s to a different
\* machine, execute_code delegates to the Forwarder for that machine and returns
\* its result as a dictionary of stdout, stderr, result, success.
C8_ForwardDelegates ==
  OnForwardPath(returned)
  => /\ returned.ret = "dict"
     /\ [to |-> returned.lookup, session_id |-> returned.sid, code |-> returned.code,
         timeout |-> returned.timeout] \in forwards

\* C9: for code that raises no error, an execute call for a session owned by
\* machine B issued on machine A returns the result B returns for it locally.
C9_ForwardEqualsLocal ==
  (/\ OnForwardPath(returned)
   /\ ClientOf(returned.lookup, returned.sid) # 0
   /\ RaisesNoError(returned.code, ns[ClientOf(returned.lookup, returned.sid)]))
  => /\ returned.ret = "dict"
     /\ ResultDict(returned) =
          LocalResult(returned.code, ns[ClientOf(returned.lookup, returned.sid)])

\* C10: execute_code on a session absent from the local map and not owned by
\* another machine raises 'registered but not found locally' when the registry
\* names this machine, plain 'not found' when the registry has no entry or
\* forwarding is disabled (the registry is then not consulted); nothing is
\* submitted and no state changes.
C10_NotFoundForms ==
  [][(Begins /\ NewCall.op = "execute" /\ ClientOf(NewCall.m, NewCall.sid) = 0)
     => /\ NewCall.fwd => NewCall.lookup \in {NoMachine, registry[NewCall.sid]}
        /\ ~NewCall.fwd => NewCall.lookup = "-"
        /\ (NewCall.fwd /\ NewCall.lookup = NewCall.m)
             => NewCall.pc = "done" /\ NewCall.ret = "NotFoundLocal"
        /\ (~NewCall.fwd \/ NewCall.lookup = NoMachine)
             => NewCall.pc = "done" /\ NewCall.ret = "NotFound"
        /\ ~OnForwardPath(NewCall)
             => UNCHANGED <<kmVars, regVars, kernelVars, nextSession, nextMsg>>]_vars

\* The registry named this machine, the map did not hold the session.
C10_Witness ==
  /\ returned.op = "execute" /\ returned.ret = "NotFoundLocal"
  /\ registry[returned.sid] = returned.m
  /\ kernel_clients[returned.m][returned.sid] = 0

\* C11: when the executed code raises an error, execute_code returns success false
\* and a stderr holding the diagnostic, and every stdout message emitted before the
\* error is in the returned stdout. The raise statement of `fail` is reached only
\* after its print has emitted a stdout message, so a result whose stderr holds the
\* diagnostic of the raise must hold the printed value in stdout. Stated for calls
\* that return while no other execute_code call is running.
C11_ErrorKeepsStdout ==
  (/\ returned.op = "execute" /\ returned.code = "fail" /\ returned.ret = "dict"
   /\ Raised \in Range(returned.stderr)
   /\ \A u \in Tasks : calls[u].op # "execute")
  => /\ ~ResultDict(returned).success
     /\ ToString(returned.sid) \in Range(returned.stdout)

\* The last two calls of the service layer were get_or_create_container for one
\* tenant, the first returned a container, and the manager is connected to its
\* cache store, which answered both calls.
TwoCallsForOneTenant ==
  /\ redis_client /\ xlast.ret # "RedisError"
  /\ xprev.op = "get_or_create_container" /\ xlast.op = "get_or_create_container"
  /\ xprev.user = xlast.user
  /\ xprev.ret = "ok"

\* C12: two consecutive get_or_create_container calls for one tenant, the container
\* still running at the second call, both succeed and return the same container id,
\* and no second container is made for the tenant.
C12_HostReused ==
  (TwoCallsForOneTenant /\ xlast.seen = "running")
  => /\ xlast.ret = "ok" /\ xlast.id = xprev.id
     /\ \A c \in SessionIds : containers[c].name = xlast.user => c = xprev.id

\* C13: when the tenant's container was stopped or removed between two
\* get_or_create_container calls, the second call succeeds and returns a newly
\* created container with another id.
C13_StoppedHostReplaced ==
  (TwoCallsForOneTenant /\ xlast.seen \in {"exited", "absent"})
  => /\ xlast.ret = "ok"
     /\ xlast.id \in SessionIds \ {xprev.id}

\* C15: when the budget is exhausted in Executor._execute_code, an interrupt was sent
\* to the interpreter before the call returns, and the result is a timeout result:
\* success is false and stderr reports the timeout.
C15_TimeoutResult ==
  (xlast.op = "_execute_code" /\ TimeoutNote \in Range(xlast.stderr))
  => /\ xlast.kc \in interrupts
     /\ ~xlast.success

\* C17: a network failure while forwarding is raised as an error of a kind of its
\* own, distinct from an execution failure, NotFound and Timeout, and it carries the
\* identity of the remote machine.
C17_ConnectivityDistinct ==
  (xlast.op = "forward_execute_request" /\ xlast.ret = "ForwardFailure")
  => /\ xlast.target \in Machines
     /\ \A other \in {"KernelCommunication", "NotFound", "Timeout"} :
          /\ ExceptionClass(other) # ExceptionClass(xlast.ret)
          /\ EndpointError(ExceptionClass(other)) # EndpointError(ExceptionClass(xlast.ret))

\* A step in which a call of a public method ends: it leaves its slot, or it began
\* and ended before its first await.
Ends ==
  \/ \E t \in Tasks : calls[t].pc # "free" /\ calls'[t].pc = "free"
  \/ Begins /\ calls' = calls

\* C14: when the backing store is unreachable no registry operation raises:
\* register_session stores nothing, the lookup returns none, extend_session_ttl and
\* unregister_session do nothing; and a create_session and a delete_session whose
\* registry operation did not reach the store end as they do otherwise: the creation
\* returns the id with the session in both maps and the lock released, the delete
\* returns with the session out of both maps, and a lookup for a session not held
\* locally ends in plain 'not found'. Every execute_code on a locally held session
\* calls extend_session_ttl, answered or not, and ends with its result or Timeout.
C14_DegradedStoreHarmless ==
  [][/\ \A m \in Machines, s \in SessionIds :
          /\ register_session(registry, m, s, FALSE) = registry
          /\ get_session_machine(m, s, FALSE) = NoMachine
          /\ unregister_session(registry, m, s, FALSE) = registry
          /\ extend_session_ttl(registry, m, s, FALSE) = registry
     /\ \A t \in Tasks : ~calls'[t].degraded
     /\ (Ends /\ returned'.op = "execute" /\ returned'.kc # 0)
        => returned'.ret \in {"dict", "Timeout"}
     /\ (Ends /\ returned'.degraded)
        => LET r == returned'
           IN /\ registry' = registry
              /\ r.op = "create"
                   => /\ r.ret = "ok"
                      /\ kernels'[r.m][r.sid] = r.sid /\ kernel_clients'[r.m][r.sid] = r.sid
                      /\ startup_lock'[r.m] # startup_lock[r.m]
              /\ r.op = "delete"
                   => /\ r.ret = "ok"
                      /\ kernels'[r.m][r.sid] = 0 /\ kernel_clients'[r.m][r.sid] = 0
              /\ r.op = "execute"
                   => r.kc = 0 /\ r.ret = "NotFound" /\ r.lookup = NoMachine]_vars

\* A creation whose registration did not reach the store returned its id: the
\* registry has no entry for the session, the maps hold it.
C14_Witness ==
  /\ returned.op = "create" /\ returned.degraded /\ returned.ret = "ok"
  /\ registry[returned.sid] = NoMachine
  /\ kernels[returned.m][returned.sid] = returned.sid
  /\ kernel_clients[returned.m][returned.sid] = returned.sid

\* C16: when create_session raises its startup failure the session id is in neither
\* kernels nor kernel_clients and the interpreter process started for it, if any,
\* has been shut down.
C16_FailedCreateLeavesNothing ==
  (returned.op = "create" /\ returned.ret = "StartupFailure")
  => /\ kernels[returned.m][returned.sid] = 0
     /\ kernel_clients[returned.m][returned.sid] = 0
     /\ ~alive[returned.sid]

\* The create_session calls of machine m inside the startup sequence: between the
\* workspace creation and the insertion in the maps, or in the cleanup that the
\* same `async with` block covers.
InStartup(m) ==
  {t \in Tasks : /\ calls[t].op = "create" /\ calls[t].m = m
                 /\ calls[t].pc \in {"starting", "readying", "cleanup"}}

\* C18: on one machine at most one create_session call is inside the interpreter
\* startup sequence at any time, and it is the call that holds the startup lock.
C18_StartupSerialized ==
  \A m \in Machines :
    /\ Cardinality(InStartup(m)) <= 1
    /\ \A t \in InStartup(m) : startup_lock[m] = t
    /\ startup_lock[m] # NoTask => startup_lock[m] \in InStartup(m)

\* A second create_session of the machine waits for the lock while the first is
\* inside the startup sequence.
C18_Witness ==
  \E m \in Machines, t \in Tasks, u \in Tasks :
    /\ t \in InStartup(m) /\ calls[t].pc = "readying"
    /\ calls[u].op = "create" /\ calls[u].m = m /\ calls[u].pc = "wait_lock"

\* The execute_code calls that are between the submission of their code and the end
\* of their drain loop on the client of interpreter p.
Draining(p) ==
  {t \in Tasks : /\ calls[t].op = "execute" /\ calls[t].kc = p
                 /\ calls[t].pc \in {"iopub", "shell"}}

\* C19: two concurrent execute_code calls against the same session never
\* interleave: at most one call per session is between code submission and the end
\* of its drain loop at any time.
C19_OneExecutionPerSession ==
  \A p \in SessionIds : Cardinality(Draining(p)) <= 1

\* The call in slot t is inside its drain loop.
InDrainLoop(t) == calls[t].op = "execute" /\ calls[t].pc \in {"iopub", "shell"}

\* C20: every execute_code call on a locally held session eventually returns or
\* raises, whatever the interpreter does: with an interpreter that never answers
\* and with one that emits stream messages forever, the call leaves its drain loop.
C20_ExecuteTerminates ==
  \A t \in Tasks : InDrainLoop(t) ~> ~InDrainLoop(t)

\* An execution of the endless print loop collected output and ended in Timeout
\* while the interpreter still had output to send.
C20_Witness ==
  /\ returned.op = "execute" /\ returned.code = "spin" /\ returned.ret = "Timeout"
  /\ returned.stdout # <<>> /\ ~returned.execution_complete
  /\ pending[returned.kc] # <<>> /\ alive[returned.kc]

\* C21: on the forwarding path (session not local, owned by another machine) the
\* forwarding machine writes nothing to the registry: it does not register, extend
\* the TTL of, or unregister the session, and its kernels and kernel_clients maps
\* are unchanged.
C21_ForwardWritesNothing ==
  [][(Begins /\ OnForwardPath(NewCall))
     => /\ ~NewCall.extended
        /\ UNCHANGED <<registry, kernels, kernel_clients>>]_vars

\* A request for a session that another machine owns went down the forwarding
\* path, and the owner's registry entry is as it was.
C21_Witness ==
  /\ OnForwardPath(returned)
  /\ registry[returned.sid] = returned.lookup
  /\ kernels[returned.lookup][returned.sid] # 0
  /\ kernels[returned.m][returned.sid] = 0

\* A step of Executor.execute failed: the host resolution raised, or the wait for
\* output ended on an exception that is not a timeout.
StepFailed(x) ==
  \/ x.op = "get_or_create_container" /\ x.ret # "ok"
  \/ x.op = "_execute_code" /\ x.broke

\* C22: Executor.execute never raises: a failure at any step is returned as a
\* result with success false, empty plots and results, and a stderr that carries
\* the diagnostic.
C22_FailureIsReported ==
  StepFailed(xlast)
  => LET r == ExecuteReturns(xlast)
     IN /\ ~r.success
        /\ r.stderr # <<>>
        /\ r.plots = <<>> /\ r.results = <<>>

\* C23: in create_session a timeout of the readiness wait does not fail the
\* creation: the session is inserted in both maps, registered (when the store
\* answers) and its id returned; a timeout of the interpreter start fails the
\* creation and leaves no map entry.
C23_ReadinessTimeoutTolerated ==
  [][(Ends /\ returned'.op = "create")
     => LET r == returned'
        IN /\ r.timed_out = "ready"
                => /\ r.ret = "ok"
                   /\ kernels'[r.m][r.sid] = r.sid /\ kernel_clients'[r.m][r.sid] = r.sid
                   /\ ~r.degraded => registry'[r.sid] = r.m
           /\ r.timed_out = "start"
                => /\ r.ret = "StartupFailure"
                   /\ kernels'[r.m][r.sid] = 0 /\ kernel_clients'[r.m][r.sid] = 0
                   /\ registry'[r.sid] = NoMachine]_vars

\* A creation whose readiness wait timed out returned its id, and the session is
\* in the maps and in the registry.
C23_Witness ==
  /\ returned.op = "create" /\ returned.timed_out = "ready" /\ returned.ret = "ok"
  /\ kernels[returned.m][returned.sid] = returned.sid
  /\ registry[returned.sid] = returned.m

\* C24: for a local execution that completes, stdout is the texts of the stdout
\* stream messages received, in arrival order; stderr the texts of the stderr
\* stream messages and of the error diagnostic, in arrival order; result the text of
\* the last computed-result message, None when there was none; success is true
\* exactly when stderr is empty. Stated message by message: each message the call
\* receives adds its text at the end of the field it belongs to and leaves the other
\* fields alone, a message of another type changes nothing, and the call returns
\* its dictionary on the first idle status or error.
C24_ResultOfCompletedExecution ==
  [][\A t \in Tasks :
       (/\ calls[t].op = "execute" /\ calls[t].pc = "iopub"
        /\ iopub[calls[t].kc] # <<>> /\ calls'[t] # calls[t])
       => LET msg == Head(iopub[calls[t].kc])
              before == calls[t]
              after == IF calls'[t].pc = "free" THEN returned' ELSE calls'[t]
              diagnostic == msg.type = "error"
              completes == diagnostic \/ (msg.type = "status" /\ msg.name = "idle")
          IN /\ after.stdout = IF msg.type = "stream" /\ msg.name = "stdout"
                               THEN before.stdout \o <<msg.text>> ELSE before.stdout
             /\ after.stderr = IF (msg.type = "stream" /\ msg.name = "stderr") \/ diagnostic
                               THEN before.stderr \o <<msg.text>> ELSE before.stderr
             /\ after.result = IF msg.type = "execute_result" THEN msg.text
                               ELSE before.result
             /\ completes <=> after.ret = "dict"
             /\ completes => /\ ResultDict(after).stdout = after.stdout
                             /\ ResultDict(after).stderr = after.stderr
                             /\ ResultDict(after).result = after.result
                             /\ ResultDict(after).success <=> (after.stderr = <<>>)]_vars

\* An execution completed after two stdout messages: they are in the result in
\* their order of arrival, with no result value and success true.
C24_Witness ==
  /\ returned.op = "execute" /\ returned.ret = "dict" /\ returned.execution_complete
  /\ returned.stdout = <<"a", "b">> /\ returned.result = "None"
  /\ ResultDict(returned).success

\* The stream messages of the request of call c that wait on the output channel of
\* its client.
BufferedStreams(c) ==
  {i \in 1..Len(iopub[c.kc]) :
     iopub[c.kc][i].type = "stream" /\ iopub[c.kc][i].parent = c.msg_id}

\* C25: when execute_code observes the shell reply of its request, every stream
\* message of that request already buffered on the output channel is still drained
\* into the returned stdout/stderr: the returned texts are the texts collected so
\* far and one more for each buffered stream message of the request. Stated for a
\* call that runs while no other execute_code call does.
C25_ShellReplyThenDrain ==
  [][\A t \in Tasks :
       (/\ calls[t].op = "execute" /\ calls[t].pc = "shell"
        /\ calls'[t].pc = "free" /\ returned'.ret = "dict"
        /\ \A u \in Tasks \ {t} : calls[u].op # "execute")
       => Len(returned'.stdout) =
            Len(calls[t].stdout) + Cardinality(BufferedStreams(calls[t]))]_vars

\* C26: each session follows the lifecycle absent -> starting -> ready ->
\* executing <-> ready -> terminated: a session is never terminated while an
\* execution on it is in progress (an execution in its drain loop talks to a live
\* interpreter), code is never submitted to a terminated session (a session found
\* in the map has a live interpreter), and a terminated session never becomes
\* ready again.
C26_Lifecycle ==
  [][/\ \A p \in SessionIds : Draining(p)' # {} => alive'[p]
     /\ \A m \in Machines : \A s \in Keys(kernel_clients'[m]) : alive'[ClientOf(m, s)']
     /\ \A m \in Machines, s \in SessionIds :
          (s \in session_dirs /\ kernel_clients[m][s] = 0 /\ ~alive[s]
             /\ \A t \in Tasks : calls[t].sid # s)
          => kernel_clients'[m][s] = 0]_vars

\* C27: with a reachable store, after every execute_code on a locally held session
\* the registry entry of that session exists and names this machine: the registry
\* that extend_session_ttl leaves when the store answers maps the session to the
\* machine of the call. Stated for a session whose creation registered it and on
\* which no delete_session was called since.
C27_ExecutionKeepsSessionResolvable ==
  [][(/\ Begins /\ NewCall.op = "execute" /\ NewCall.kc # 0
      /\ returned.op = "create" /\ returned.sid = NewCall.sid /\ returned.ret = "ok"
      /\ ~returned.degraded
      /\ \A t \in Tasks : calls[t].op # "delete")
     => /\ NewCall.extended
        /\ extend_session_ttl(registry, NewCall.m, NewCall.sid, TRUE)[NewCall.sid] = NewCall.m
        /\ registry'[NewCall.sid] = NewCall.m]_vars

\* C28: if the wait for the connection descriptor of a newly created host is
\* exhausted, get_or_create_container raises its startup failure, no mapping is
\* cached for the tenant and the failed host is not left running.
C28_FailedHostRolledBack ==
  (xlast.op = "get_or_create_container" /\ xlast.ret = "KernelFailedToStart")
  => /\ user_container[xlast.user] = 0
     /\ ~\E c \in SessionIds :
           containers[c].name = xlast.user /\ containers[c].status = "running"

\* C29: a cached tenant-to-host mapping is used only for a host observed running:
\* a call that finds the cached host stopped or missing deletes the mapping (the
\* mapping no longer names that host afterwards), and after a call that returns
\* the mapping of the tenant names exactly the returned host.
C29_MappingNamesReturnedHost ==
  /\ (TwoCallsForOneTenant /\ xlast.seen \in {"exited", "absent"})
       => user_container[xlast.user] # xprev.id
  /\ (redis_client /\ xlast.op = "get_or_create_container" /\ xlast.ret = "ok")
       => user_container[xlast.user] = xlast.id

\* C30: _ensure_docker_client tries the connection methods in order, a method that
\* fails is followed by the next one, and an error is raised only when every method
\* has failed: a call that ends in the connection error had no method that would
\* have connected.
C30_EveryMethodTried ==
  (xlast.op = "get_or_create_container" /\ xlast.ret = "DockerConnectionFailed")
  => ~xlast.fallback

\* A display_data message whose data holds an image or HTML the Executor knows.
Rich(msg) ==
  msg.type = "display_data" /\ msg.data \cap {"image/png", "image/jpeg", "text/html"} # {}

C32_LastWriterWins ==
  [][/\ (Begins /\ ~returned'.degraded)
        => LET r == returned'
           IN /\ r.op = "register_session" =>
                   /\ registry'[r.sid] = r.m
                   /\ \A q \in SessionIds \ {r.sid} : registry'[q] = registry[q]
              /\ r.op = "unregister_session" =>
                   /\ registry'[r.sid] = NoMachine
                   /\ \A q \in SessionIds \ {r.sid} : registry'[q] = registry[q]
              /\ r.op = "extend_session_ttl" => registry' = registry
              /\ r.op = "get_session_machine" =>
                   /\ registry' = registry
                   /\ r.ret = registry[r.sid]
     /\ ~Begins => \A q \in SessionIds : registry'[q] \in {registry[q], NoMachine}]_vars

\* A machine registered a session that another machine owned, and owns it now.
C32_Witness ==
  /\ returned.op = "register_session" /\ ~returned.degraded
  /\ returned.lookup \in Machines \ {returned.m}
  /\ registry[returned.sid] = returned.m

\* C35: delete_session(s) called on a machine that does not hold s locally leaves
\* the registry entry of s, owned by another machine, unchanged: the owner's live
\* session stays routable.
C35_ForeignDeleteKeepsEntry ==
  [][\A m \in Machines, s \in SessionIds :
       (/\ Begins /\ NewCall.op = "delete" /\ NewCall.m = m /\ NewCall.sid = s
        /\ ~HeldLocally(m, s)
        /\ registry[s] \in Machines \ {m} /\ HeldLocally(registry[s], s))
       => registry'[s] = registry[s]]_vars

\* C36: for any interleaving of two concurrent delete_session(s) calls on the
\* machine holding s, neither call raises, the interpreter ends shut down, and s
\* ends absent from both kernels and kernel_clients. Stated for calls that found s
\* in the map and whose shutdown_kernel did not raise.
C36_ConcurrentDeletes ==
  (returned.op = "delete" /\ returned.kc # 0 /\ returned.ret # "ShutdownError")
  => /\ returned.ret = "ok"
     /\ ~alive[returned.kc]
     /\ kernels[returned.m][returned.sid] = 0
     /\ kernel_clients[returned.m][returned.sid] = 0

\* C40: at every point where another coroutine can run, the kernels map and the
\* kernel_clients map of a KernelManager have the same key set, after any sequence
\* and interleaving of create_session, execute_code and delete_session calls,
\* including failed creations.
C40_MapsHaveSameKeys ==
  \A m \in Machines : Keys(kernels[m]) = Keys(kernel_clients[m])

\* A delete_session ran into KeyError behind a concurrent one that had removed the
\* session: it is in neither map.
C40_Witness ==
  /\ returned.op = "delete" /\ returned.ret = "KeyError"
  /\ returned.sid \notin Keys(kernels[returned.m])
  /\ returned.sid \notin Keys(kernel_clients[returned.m])

\* C37: across any sequence of execute calls on one session, each call's result is
\* built only from output messages produced by its own request: a message left on
\* the output channel by an earlier request never ends a later call's drain loop
\* and never appears in its stdout, stderr or result. Stated for a call that reads
\* a message of another request.
C37_OwnMessagesOnly ==
  [][\A t \in Tasks :
       (/\ calls[t].op = "execute" /\ calls[t].pc = "iopub"
        /\ iopub[calls[t].kc] # <<>> /\ calls'[t] # calls[t]
        /\ Head(iopub[calls[t].kc]).parent # calls[t].msg_id)
       => LET after == IF calls'[t].pc = "free" THEN returned' ELSE calls'[t]
          IN /\ after.stdout = calls[t].stdout
             /\ after.stderr = calls[t].stderr
             /\ after.result = calls[t].result
             /\ after.ret # "dict"]_vars

\* C39: get_or_create_container returns a newly created host only after that
\* host's own interpreter has written a well-formed connection descriptor: the
\* descriptor in the tenant's directory is the one of the returned host, never a
\* file left by an earlier host of the same tenant.
C39_DescriptorOfReturnedHost ==
  (xlast.op = "get_or_create_container" /\ xlast.ret = "ok")
  => connection_file[xlast.user] = xlast.id

\* The containers of tenant u that run, on whatever engine.
RunningHosts(u) ==
  {c \in SessionIds : containers[c].status = "running" /\ containers[c].name = u}

\* C38: for any interleaving of get_or_create_container calls for the same tenant,
\* including calls from different processes that share the cache store, at most
\* one host exists and runs for that tenant at any time.
C38_OneHostPerTenant ==
  \A u \in Users : Cardinality(RunningHosts(u)) <= 1

\* C33: in the control service, KernelManager.execute whose deadline passes before
\* the interpreter reports idle surfaces a timeout error; it does not return an
\* ExecuteResult with status 'ok' holding only the outputs collected so far.
C33_ControlTimeoutSurfaces ==
  (returned.op = "control.execute" /\ returned.kc # 0 /\ ~returned.execution_complete)
  => /\ returned.ret # "ExecuteResult"
     /\ ExecuteResult(returned).status # "ok" \/ ControlEndpoint(returned.ret).status # 200

\* The shutdown_kernel(k) calls that hold the handle of k.
Stopping(k) ==
  {t \in Tasks : calls[t].op = "shutdown_kernel" /\ calls[t].pc = "stopping"
                 /\ calls[t].kc = k}

\* The steps of shutdown_kernel and of an execute that meets a removed id: the call
\* that finds the handle takes it out of the map, no second call can hold it, a
\* removed id never comes back, the holder returns True; a call that finds no handle
\* returns False and leaves the map unchanged; an execute started, or fetching its
\* handle, after the removal ends in 'kernel not found'. With `always` the
\* interpreter is gone whenever True is returned, without it only when the shutdown
\* did not raise.
ShutdownSteps(always) ==
     /\ \A k \in SessionIds :
          /\ Cardinality(Stopping(k)') <= 1
          /\ Stopping(k)' # {} => k \notin _kernels'
          /\ (k < nextSession /\ k \notin _kernels) => k \notin _kernels'
     /\ (Begins /\ NewCall.op = "shutdown_kernel")
          => IF NewCall.sid \in _kernels
             THEN /\ NewCall.pc = "stopping" /\ NewCall.kc = NewCall.sid
                  /\ _kernels' = _kernels \ {NewCall.sid}
             ELSE /\ NewCall.pc = "done" /\ NewCall.ret = "False"
                  /\ _kernels' = _kernels
     /\ \A t \in Tasks :
          (calls[t].op = "shutdown_kernel" /\ calls'[t] # calls[t])
          => /\ calls'[t].pc = "free"
             /\ returned'.op = "shutdown_kernel" /\ returned'.ret = "True"
             /\ returned'.kc = calls[t].kc
             /\ (always \/ ~returned'.degraded) => ~alive'[returned'.kc]
             /\ _kernels' = _kernels
     /\ (Begins /\ NewCall.op = "control.execute" /\ NewCall.sid \notin _kernels)
          => /\ NewCall.pc = "done"
             /\ ControlEndpoint(NewCall.ret).detail = "kernel not found"
     /\ \A t \in Tasks :
          (calls[t].op = "control.execute" /\ calls[t].pc = "handle"
           /\ calls'[t] # calls[t] /\ calls[t].sid \notin _kernels)
          => /\ calls'[t].pc = "free"
             /\ ControlEndpoint(returned'.ret).detail = "kernel not found"

\* C34 (as amended): in the control service, for any interleaving of concurrent
\* shutdown_kernel(k) calls exactly one call takes the handle, asks the interpreter
\* to shut down and returns True, and the interpreter is gone unless that shutdown
\* raised (the exception is swallowed); every other call, and every call for an id
\* not in the map, returns False without raising and leaves the map unchanged; an
\* execute for k started after the removal fails with 'kernel not found'.
C34_OneShutdownWins == [][ShutdownSteps(FALSE)]_vars

\* C34 as stated: the call that returns True has shut the interpreter down.
C34_TrueMeansShutDown == [][ShutdownSteps(TRUE)]_vars

\* C34 witness: of two concurrent shutdown calls for the same kernel one holds the
\* handle and is still shutting down while the other has returned False.
C34_Witness ==
  \E k \in SessionIds :
    /\ Stopping(k) # {}
    /\ k \notin _kernels /\ alive[k]
    /\ returned.op = "shutdown_kernel" /\ returned.sid = k /\ returned.ret = "False"

Spec == Init /\ [][Next]_vars

\* The session layer under execute calls that come one after the other.
SerialSpec == Init /\ [][SerialNext]_vars

\* Every wait of the drain loop is an asyncio.wait_for with a timeout (1.0 s on
\* iopub, 0.1 s on shell), so a call inside the loop takes its next step; nothing is
\* assumed of the interpreter or of the other calls.
LiveSpec ==
  /\ Init /\ [][Next]_vars
  /\ \A t \in Tasks :
       WF_vars(ExecIopub(t) \/ ExecIopubTimeout(t) \/ ExecShell(t) \/ ExecShellTimeout(t))
====
